---- MODULE Spec2Model ----
(***************************************************************************)
(* The data-access and mutation layer of the lifting diary: the relational *)
(* schema (users -> workouts -> exercises -> sets) with its foreign keys,  *)
(* the workout helpers of data/workouts.ts, the auth stub getCurrentUser   *)
(* and the two server actions createWorkoutAction / updateWorkoutAction.   *)
(*                                                                         *)
(* Every awaited database statement is one atomic step; requests           *)
(* interleave between statements, as the handlers hold no lock and open no *)
(* transaction.                                                            *)
(*                                                                         *)
(* An optional value (a nullable column, an optional key of an object) is  *)
(* the empty set when null/undefined and a singleton when present.         *)
(***************************************************************************)
EXTENDS Integers, Sequences, FiniteSets, TLC

VARIABLES
    users,        \* rows of table users
    workouts,     \* rows of table workouts
    exercises,    \* rows of table exercises
    sets,         \* rows of table sets
    nextId,       \* the next value gen_random_uuid() hands out (never reused)
    now,          \* the clock behind now() and new Date()
    pc,           \* per request: the statement it is suspended before
    op,           \* per request: the call it serves and its arguments
    user,         \* per request: what getCurrentUser resolved (optional)
    res,          \* per request: what the call returned or threw
    log,          \* per request: the steps of the action executed so far
    revalidated,  \* per request: the paths it passed to revalidatePath
    form          \* per request: the client component that sent it, if any

vars == <<users, workouts, exercises, sets, nextId, now, pc, op, user, res,
          log, revalidated, form>>

tables == <<users, workouts, exercises, sets>>

(***************************************************************************)
(* Bounds of the model.                                                    *)
(***************************************************************************)
MaxIds == 8      \* ids handed out in a run: 1 .. MaxIds
MaxTime == 1     \* the clock runs 0 .. MaxTime

Procs == {"r1", "r2"}       \* the requests in service, each serving one call

(***************************************************************************)
(* Program constants.                                                      *)
(***************************************************************************)
TEMP_USER_EMAIL == "user@example.com"
TEMP_USERNAME == "testuser"
NotFoundError == "Workout not found or unauthorized"
NameMin == 1
NameMax == 255
NotesMax == 1000
DurationMin == 1
DurationMax == 600

(***************************************************************************)
(* What a call hands back: the rows it returns (a helper returns the first *)
(* row of its result, or undefined when there is none: the empty set), or  *)
(* the error it throws.                                                    *)
(***************************************************************************)
Returned(rows) == [status |-> "returned", error |-> "", rows |-> rows]
Threw(message) == [status |-> "threw", error |-> message, rows |-> {}]
Pending == [status |-> "pending", error |-> "", rows |-> {}]

NoData == [name |-> {}, date |-> {}, notes |-> {}, durationMinutes |-> {},
           userId |-> {}]
NoInput == [workoutId |-> {}, name |-> {}, date |-> {}, notes |-> {},
            durationMinutes |-> {}, userId |-> {}, createdAt |-> {},
            updatedAt |-> {}]
\* The state of a client form: the input it submitted (none before the
\* submit), useState(false) of isLoading, the paths given to router.push and
\* the errors given to console.error.
NoForm == [submitted |-> {}, isLoading |-> FALSE, pushed |-> <<>>, logged |-> {}]
NoCall == [kind |-> "none", workoutId |-> 0, userId |-> 0, data |-> NoData,
           input |-> NoInput]

(***************************************************************************)
(* The users db/seed.ts inserts.  Their password hashes are samples, not   *)
(* hashes bcrypt made.                                                     *)
(***************************************************************************)
SeedTestUser ==
    [id |-> 1, email |-> TEMP_USER_EMAIL, username |-> TEMP_USERNAME,
     passwordHash |-> "$2a$10$samplehashedpassword0"]
SeedJohn ==
    [id |-> 2, email |-> "john@example.com", username |-> "john_lifter",
     passwordHash |-> "$2a$10$samplehashedpassword1"]
SeedSarah ==
    [id |-> 15, email |-> "sarah@example.com", username |-> "sarah_strong",
     passwordHash |-> "$2a$10$samplehashedpassword2"]

(***************************************************************************)
(* Schema: the state after db/seed.ts, cut down to the test user, one      *)
(* other user and that user's workout with one exercise and one set.       *)
(***************************************************************************)
Init ==
    /\ users = {SeedTestUser, SeedJohn}
    /\ workouts = {[id |-> 3, userId |-> 2, name |-> "Push Day", date |-> 0,
                    notes |-> {"Felt strong"}, durationMinutes |-> {75},
                    createdAt |-> 0, updatedAt |-> 0]}
    /\ exercises = {[id |-> 4, workoutId |-> 3, orderInWorkout |-> 1]}
    /\ sets = {[id |-> 5, exerciseId |-> 4, setNumber |-> 1]}
    /\ nextId = 6
    /\ now = 0
    /\ pc = [p \in Procs |-> "idle"]
    /\ op = [p \in Procs |-> NoCall]
    /\ user = [p \in Procs |-> {}]
    /\ res = [p \in Procs |-> Pending]
    /\ log = [p \in Procs |-> <<>>]
    /\ revalidated = [p \in Procs |-> {}]
    /\ form = [p \in Procs |-> NoForm]

(***************************************************************************)
(* Foreign keys, db/schema.ts: ON DELETE CASCADE from users to workouts,   *)
(* from workouts to exercises and from exercises to sets.  Each operator   *)
(* gives the rows of the child table that survive the deletion of the      *)
(* given parent ids.                                                       *)
(***************************************************************************)
\* Mutant: every workout goes, whoever owns it.
CascadeWorkoutsAll(deletedUserIds) == {}

CascadeWorkouts(deletedUserIds) ==
    {w \in workouts : w.userId \notin deletedUserIds}

\* Mutant: exercises.workout_id without ON DELETE CASCADE.
CascadeExercisesNone(deletedWorkoutIds) == exercises

CascadeExercises(deletedWorkoutIds) ==
    {e \in exercises : e.workoutId \notin deletedWorkoutIds}

\* Mutant: sets.exercise_id without ON DELETE CASCADE.
CascadeSetsNone(deletedExerciseIds) == sets

CascadeSets(deletedExerciseIds) ==
    {s \in sets : s.exerciseId \notin deletedExerciseIds}

\* Mutant: the statement reads the rows and cascades, but leaves the workout
\* rows in the table.
DeleteWorkoutRowsNotRemoved(rows) ==
    LET wids == {w.id : w \in rows}
        eids == {e.id : e \in {x \in exercises : x.workoutId \in wids}}
    IN  /\ workouts' = workouts
        /\ exercises' = CascadeExercises(wids)
        /\ sets' = CascadeSets(eids)

\* The whole effect of DELETE on the given workout rows.
DeleteWorkoutRows(rows) ==
    LET wids == {w.id : w \in rows}
        eids == {e.id : e \in {x \in exercises : x.workoutId \in wids}}
    IN  /\ workouts' = workouts \ rows
        /\ exercises' = CascadeExercises(wids)
        /\ sets' = CascadeSets(eids)

(***************************************************************************)
(* data/workouts.ts                                                        *)
(***************************************************************************)

\* Mutant: the where clause without the ownership condition.
MatchWorkoutAnyOwner(workoutId, userId) ==
    {w \in workouts : w.id = workoutId}

\* where: and(eq(workouts.id, workoutId), eq(workouts.userId, userId))
MatchWorkout(workoutId, userId) ==
    {w \in workouts : w.id = workoutId /\ w.userId = userId}

\* Mutant: a different error for a workout that exists under another owner.
getWorkoutByIdLeaky(workoutId, userId) ==
    IF \E w \in workouts : w.id = workoutId /\ w.userId # userId
    THEN Threw("Unauthorized")
    ELSE IF \E w \in workouts : w.id = workoutId /\ w.userId = userId
         THEN Returned({w \in workouts : w.id = workoutId /\ w.userId = userId})
         ELSE Threw(NotFoundError)

getWorkoutById(workoutId, userId) ==
    LET found == MatchWorkout(workoutId, userId)
    IN  IF found = {} THEN Threw(NotFoundError) ELSE Returned(found)

(***************************************************************************)
(* The reads with relations: db.query.workouts.findMany / findFirst with   *)
(* exercises and their sets.  ORDER BY fixes the position of two rows only *)
(* when their keys differ; rows with equal keys come back in any order, so *)
(* each read is the set of the lists the database may answer with.  Dates  *)
(* are milliseconds since the epoch, and the days are those of a zone with *)
(* a fixed offset, counted from its midnight.                              *)
(***************************************************************************)
asc == "asc"
desc == "desc"

RECURSIVE OrderBy(_, _, _)
RECURSIVE Unordered(_, _, _)
\* Mutant: no ORDER BY, the rows in any order.
Unordered(rows, column, direction) ==
    IF rows = {} THEN {<<>>}
    ELSE UNION {{<<r>> \o rest : rest \in Unordered(rows \ {r}, column, direction)} :
                r \in rows}

\* orderBy: [asc(column)] or [desc(column)]
OrderBy(rows, column, direction) ==
    IF rows = {} THEN {<<>>}
    ELSE LET first == {r \in rows : \A o \in rows :
                          IF direction = asc THEN r[column] <= o[column]
                                             ELSE r[column] >= o[column]}
         IN  UNION {{<<r>> \o rest : rest \in OrderBy(rows \ {r}, column, direction)} :
                    r \in first}

\* The lists that hold, at each position i of list, one of variants[i], the
\* forms the row list[i] can take with its relations loaded.
EachOf(list, variants) ==
    {f \in [1 .. Len(list) -> UNION {variants[i] : i \in 1 .. Len(list)}] :
        \A i \in 1 .. Len(list) : f[i] \in variants[i]}

\* with: { sets: { orderBy: asc(sets.setNumber) } }
ExerciseWithSets(e) ==
    {[id |-> e.id, workoutId |-> e.workoutId, orderInWorkout |-> e.orderInWorkout,
      sets |-> ss] :
        ss \in OrderBy({x \in sets : x.exerciseId = e.id}, "setNumber", asc)}

\* with: { exercises: { orderBy: asc(exercises.orderInWorkout), with: sets } }
WorkoutWithData(w) ==
    {[id |-> w.id, userId |-> w.userId, name |-> w.name, date |-> w.date,
      notes |-> w.notes, durationMinutes |-> w.durationMinutes,
      createdAt |-> w.createdAt, updatedAt |-> w.updatedAt, exercises |-> ex] :
        ex \in UNION {EachOf(o, [i \in 1 .. Len(o) |-> ExerciseWithSets(o[i])]) :
                        o \in OrderBy({e \in exercises : e.workoutId = w.id},
                                      "orderInWorkout", asc)}}

\* setHours(23, 59, 59, 999), in milliseconds after midnight
EndOfDayMs == 23 * 3600000 + 59 * 60000 + 59 * 1000 + 999
MsPerDay == EndOfDayMs + 1

\* new Date(date) with setHours(0, 0, 0, 0)
startOfDay(date) == date - (date % MsPerDay)

\* Mutant: setHours(23, 59, 59) without the milliseconds.
endOfDayWholeSeconds(date) == startOfDay(date) + (EndOfDayMs - 999)

\* new Date(date) with setHours(23, 59, 59, 999)
endOfDay(date) == startOfDay(date) + EndOfDayMs

\* Mutant: the day's workouts, oldest first.
getWorkoutsForUserByDateOldestFirst(userId, date) ==
    UNION {EachOf(o, [i \in 1 .. Len(o) |-> WorkoutWithData(o[i])]) :
             o \in OrderBy({w \in workouts : /\ w.userId = userId
                                             /\ w.date >= startOfDay(date)
                                             /\ w.date <= endOfDay(date)},
                           "createdAt", asc)}

getWorkoutsForUserByDate(userId, date) ==
    UNION {EachOf(o, [i \in 1 .. Len(o) |-> WorkoutWithData(o[i])]) :
             o \in OrderBy({w \in workouts : /\ w.userId = userId
                                             /\ w.date >= startOfDay(date)
                                             /\ w.date <= endOfDay(date)},
                           "createdAt", desc)}

\* Mutant: the where clause dropped, every user's workouts.
getAllWorkoutsForUserUnfiltered(userId) ==
    UNION {EachOf(o, [i \in 1 .. Len(o) |-> WorkoutWithData(o[i])]) :
             o \in OrderBy(workouts, "date", desc)}

getAllWorkoutsForUser(userId) ==
    UNION {EachOf(o, [i \in 1 .. Len(o) |-> WorkoutWithData(o[i])]) :
             o \in OrderBy({w \in workouts : w.userId = userId}, "date", desc)}

\* getWorkoutById with what findFirst hands back: the workout with its
\* exercises and sets.
getWorkoutByIdWithData(workoutId, userId) ==
    IF MatchWorkout(workoutId, userId) = {}
    THEN {Threw(NotFoundError)}
    ELSE {Returned({x}) :
            x \in UNION {WorkoutWithData(w) : w \in MatchWorkout(workoutId, userId)}}

\* A Date is milliseconds since the epoch; a timestamp with time zone column
\* holds microseconds.
PgTimestamp(ms) == ms * 1000
JsDate(us) == us \div 1000

\* Mutant: the column declared with precision 0, whole seconds.
StoredDateWholeSeconds(date) == ((date + 500) \div 1000) * 1000

\* The Date read back from a timestamp column a Date was written to.
StoredDate(date) == JsDate(PgTimestamp(date))

\* The row INSERT INTO workouts builds: id, createdAt and updatedAt from the
\* column defaults, the rest from the arguments.
createWorkout(userId, data, t) ==
    [id |-> nextId, userId |-> userId,
     name |-> CHOOSE n \in data.name : TRUE,
     date |-> StoredDate(CHOOSE d \in data.date : TRUE),
     notes |-> data.notes, durationMinutes |-> data.durationMinutes,
     createdAt |-> t, updatedAt |-> t]

\* The keys of data that .set(data) writes: those that are not undefined.
Provided(data) ==
    {f \in DOMAIN data \cap {"name", "date", "notes", "durationMinutes", "userId"} :
        data[f] # {}}

\* Mutant: notes and durationMinutes written even when data leaves them out,
\* as null.
ApplySetOverwriting(w, data, t) ==
    [w EXCEPT !.name = IF data.name = {} THEN @ ELSE CHOOSE n \in data.name : TRUE,
              !.date = IF data.date = {} THEN @ ELSE CHOOSE d \in data.date : TRUE,
              !.notes = data.notes,
              !.durationMinutes = data.durationMinutes,
              !.updatedAt = t]

\* Mutant: the column without $onUpdate, updatedAt is left as it was.
ApplySetKeepingUpdatedAt(w, data, t) ==
    [w EXCEPT !.name = IF data.name = {} THEN @ ELSE CHOOSE n \in data.name : TRUE,
              !.date = IF data.date = {} THEN @
                      ELSE StoredDate(CHOOSE d \in data.date : TRUE),
              !.notes = IF data.notes = {} THEN @ ELSE data.notes,
              !.durationMinutes = IF data.durationMinutes = {} THEN @
                                  ELSE data.durationMinutes]

\* Mutant: a durationMinutes that data leaves out is written as null.
ApplySetNullingDuration(w, data, t) ==
    [w EXCEPT !.name = IF data.name = {} THEN @ ELSE CHOOSE n \in data.name : TRUE,
              !.date = IF data.date = {} THEN @
                      ELSE StoredDate(CHOOSE d \in data.date : TRUE),
              !.notes = IF data.notes = {} THEN @ ELSE data.notes,
              !.durationMinutes = data.durationMinutes,
              !.updatedAt = t]

\* The row UPDATE ... SET data leaves in place of w: every column data has
\* a key for is written; updatedAt is refreshed by the column's $onUpdate.
ApplySet(w, data, t) ==
    [w EXCEPT !.name = IF data.name = {} THEN @ ELSE CHOOSE n \in data.name : TRUE,
              !.userId = IF "userId" \in Provided(data)
                         THEN CHOOSE u \in data.userId : TRUE ELSE @,
              !.date = IF data.date = {} THEN @
                      ELSE StoredDate(CHOOSE d \in data.date : TRUE),
              !.notes = IF data.notes = {} THEN @ ELSE data.notes,
              !.durationMinutes = IF data.durationMinutes = {} THEN @
                                  ELSE data.durationMinutes,
              !.updatedAt = t]

\* The clock when a statement that stamps a row runs: time may have passed
\* since the last one.
Clock == {t \in {now, now + 1} : t <= MaxTime}

\* The request p has not been dispatched yet.
Free(p) == pc[p] = "idle"

Call(p, kind, workoutId, userId, data, input) ==
    /\ user' = [user EXCEPT ![p] = {}]
    /\ revalidated' = [revalidated EXCEPT ![p] = {}]
    /\ op' = [op EXCEPT ![p] = [kind |-> kind, workoutId |-> workoutId,
                             userId |-> userId, data |-> data, input |-> input]]

\* Where a helper goes once it has returned: back to the action that called
\* it, or to the caller of the helper.
AfterHelper(p) ==
    IF op[p].kind \in {"createWorkoutAction", "updateWorkoutAction"}
    THEN "revalidatePath" ELSE "done"

\* The ids callers pass: an id no workout ever had, the seeded workout's id,
\* which may be gone by now (a stale link), and the id of every workout in
\* the table.
WorkoutIdArgs == {0, 3} \cup {w.id : w \in workouts}
UserIdArgs == {u.id : u \in users}
DataArgs ==
    {NoData, [NoData EXCEPT !.name = {"Pull Day"}, !.durationMinutes = {45}]}

CallGetWorkoutById(p, workoutId, userId) ==
    /\ Free(p)
    /\ Call(p, "getWorkoutById", workoutId, userId, NoData, NoInput)
    /\ res' = [res EXCEPT ![p] = getWorkoutById(workoutId, userId)]
    /\ pc' = [pc EXCEPT ![p] = "done"]
    /\ log' = [log EXCEPT ![p] = <<>>]
    /\ UNCHANGED <<users, workouts, exercises, sets, nextId, now>>

\* Mutant: deleteWorkout returning deletedWorkouts[0] without the check.
CallDeleteWorkoutUnchecked(p, workoutId, userId) ==
    LET deletedWorkouts == {w \in workouts : w.id = workoutId /\ w.userId = userId}
    IN  /\ pc[p] = "idle"
        /\ op' = [op EXCEPT ![p] = [kind |-> "deleteWorkout",
                                    workoutId |-> workoutId, userId |-> userId,
                                    data |-> NoData, input |-> NoInput]]
        /\ workouts' = workouts \ deletedWorkouts
        /\ exercises' = {e \in exercises : e.workoutId # workoutId \/ deletedWorkouts = {}}
        /\ sets' = {x \in sets : deletedWorkouts = {} \/
                       \A e \in exercises : e.id = x.exerciseId => e.workoutId # workoutId}
        /\ res' = [res EXCEPT ![p] = Returned(deletedWorkouts)]
        /\ pc' = [pc EXCEPT ![p] = "done"]
        /\ log' = [log EXCEPT ![p] = <<>>]
        /\ UNCHANGED <<users, nextId, now, user, revalidated>>

CallDeleteWorkout(p, workoutId, userId) ==
    LET deletedWorkouts == MatchWorkout(workoutId, userId)
    IN  /\ Free(p)
        /\ Call(p, "deleteWorkout", workoutId, userId, NoData, NoInput)
        /\ DeleteWorkoutRows(deletedWorkouts)
        /\ res' = [res EXCEPT ![p] = IF deletedWorkouts = {}
                                     THEN Threw(NotFoundError)
                                     ELSE Returned(deletedWorkouts)]
        /\ pc' = [pc EXCEPT ![p] = "done"]
        /\ log' = [log EXCEPT ![p] = <<>>]
        /\ UNCHANGED <<users, nextId, now>>

\* updateWorkout called directly: the call runs up to its first statement,
\* await getWorkoutById(workoutId, userId).
CallUpdateWorkout(p, workoutId, userId, data) ==
    LET found == getWorkoutById(workoutId, userId)
    IN  /\ Free(p)
        /\ Call(p, "updateWorkout", workoutId, userId, data, NoInput)
        /\ IF found.status = "threw"
           THEN /\ res' = [res EXCEPT ![p] = found]
                /\ pc' = [pc EXCEPT ![p] = "done"]
           ELSE /\ res' = [res EXCEPT ![p] = Pending]
                /\ pc' = [pc EXCEPT ![p] = "update"]
        /\ log' = [log EXCEPT ![p] = <<"updateWorkout">>]
        /\ UNCHANGED <<users, workouts, exercises, sets, nextId, now>>

\* updateWorkout called by updateWorkoutAction, first statement:
\* await getWorkoutById(workoutId, userId)
UpdateWorkoutVerify(p) ==
    LET found == getWorkoutById(op[p].workoutId, op[p].userId)
    IN  /\ pc[p] = "updateWorkout"
        /\ IF found.status = "threw"
           THEN /\ res' = [res EXCEPT ![p] = found]
                /\ pc' = [pc EXCEPT ![p] = "done"]
           ELSE /\ res' = res
                /\ pc' = [pc EXCEPT ![p] = "update"]
        /\ log' = [log EXCEPT ![p] = Append(@, "updateWorkout")]
        /\ UNCHANGED <<users, workouts, exercises, sets, nextId, now, op, user,
                       revalidated>>

\* Mutant: the update written as an upsert, a row that is gone is put back.
UpdateWorkoutWriteUpsert(p, t) ==
    LET data == op[p].data
        matched == MatchWorkout(op[p].workoutId, op[p].userId)
        blank == [id |-> op[p].workoutId, userId |-> op[p].userId, name |-> "",
                  date |-> 0, notes |-> {}, durationMinutes |-> {},
                  createdAt |-> t, updatedAt |-> t]
        updatedWorkouts == {ApplySet(w, data, t) :
                               w \in IF matched = {} THEN {blank} ELSE matched}
    IN  /\ pc[p] = "update"
        /\ IF Provided(data) = {}
           THEN /\ res' = [res EXCEPT ![p] = Threw("No values to set")]
                /\ pc' = [pc EXCEPT ![p] = "done"]
                /\ UNCHANGED <<workouts, now>>
           ELSE /\ workouts' = (workouts \ matched) \cup updatedWorkouts
                /\ now' = t
                /\ res' = [res EXCEPT ![p] = Returned(updatedWorkouts)]
                /\ pc' = [pc EXCEPT ![p] = AfterHelper(p)]
        /\ UNCHANGED <<users, exercises, sets, nextId, op, user, log,
                       revalidated>>

\* updateWorkout, second statement: db.update(workouts).set(data).where(...)
\* .returning(), then return updatedWorkouts[0].  .set() throws when data has
\* no defined key, before any statement is sent.
UpdateWorkoutWrite(p, t) ==
    LET data == op[p].data
        matched == MatchWorkout(op[p].workoutId, op[p].userId)
        updatedWorkouts == {ApplySet(w, data, t) : w \in matched}
    IN  /\ pc[p] = "update"
        /\ IF Provided(data) = {}
           THEN /\ res' = [res EXCEPT ![p] = Threw("No values to set")]
                /\ pc' = [pc EXCEPT ![p] = "done"]
                /\ UNCHANGED <<workouts, now>>
           ELSE /\ workouts' = (workouts \ matched) \cup updatedWorkouts
                /\ now' = t
                /\ res' = [res EXCEPT ![p] = Returned(updatedWorkouts)]
                /\ pc' = [pc EXCEPT ![p] = AfterHelper(p)]
        /\ UNCHANGED <<users, exercises, sets, nextId, op, user, log,
                       revalidated>>

(***************************************************************************)
(* Validation: the zod schemas of the two actions.  A date input is what   *)
(* new Date(value) makes of it: a time, or an invalid date.  A number      *)
(* input may be null or not an integer.  parse strips the keys the schema  *)
(* does not name.                                                          *)
(***************************************************************************)
DateValue(time) == [valid |-> TRUE, time |-> time]
InvalidDate == [valid |-> FALSE, time |-> 0]
Number(n) == [isNull |-> FALSE, isInt |-> TRUE, n |-> n]
JsNull == [isNull |-> TRUE, isInt |-> FALSE, n |-> 0]
Uuid(id) == [uuid |-> TRUE, id |-> id]
NotUuid(id) == [uuid |-> FALSE, id |-> id]
\* A number that is not an integer, n + 1/2.
NonInteger(n) == [isNull |-> FALSE, isInt |-> FALSE, n |-> n]

RECURSIVE StringOfLength(_)
\* A string of n characters.
StringOfLength(n) ==
    IF n = 0 THEN ""
    ELSE IF n % 2 = 0 THEN LET half == StringOfLength(n \div 2) IN half \o half
    ELSE StringOfLength(n - 1) \o "a"

\* Mutant: the upper limit of name taken as exclusive.
NameOkBelowMax(v) == \A x \in v : Len(x) >= NameMin /\ Len(x) < NameMax

\* z.string().min(1, "Name is required").max(255)
NameOk(v) == \A x \in v : Len(x) >= NameMin /\ Len(x) <= NameMax
\* z.coerce.date()
DateOk(v) == \A x \in v : x.valid
\* z.string().max(1000)
NotesOk(v) == \A x \in v : Len(x) <= NotesMax
\* z.number().int().min(1).max(600)
DurationOk(v) ==
    \A x \in v : ~x.isNull /\ x.isInt /\ x.n >= DurationMin /\ x.n <= DurationMax

createWorkoutSchemaAccepts(input) ==
    /\ input.name # {} /\ NameOk(input.name)
    /\ input.date # {} /\ DateOk(input.date)
    /\ NotesOk(input.notes)
    /\ DurationOk(input.durationMinutes)

\* The object createWorkoutSchema.parse returns for an accepted input.
createWorkoutSchemaParse(input) ==
    [name |-> input.name,
     date |-> {x.time : x \in input.date},
     notes |-> input.notes,
     durationMinutes |-> {x.n : x \in input.durationMinutes}]

\* Mutant: durationMinutes without .nullable().
updateWorkoutSchemaNotNullable(input) ==
    /\ input.workoutId # {} /\ \A x \in input.workoutId : x.uuid
    /\ NameOk(input.name)
    /\ DateOk(input.date)
    /\ NotesOk(input.notes)
    /\ DurationOk(input.durationMinutes)

updateWorkoutSchemaAccepts(input) ==
    /\ input.workoutId # {} /\ \A x \in input.workoutId : x.uuid
    /\ NameOk(input.name)
    /\ DateOk(input.date)
    /\ NotesOk(input.notes)
    /\ DurationOk({x \in input.durationMinutes : ~x.isNull})

\* Mutant: the schema with .passthrough(), the keys it does not name are kept.
cleanedDataPassthrough(input) ==
    [name |-> input.name,
     date |-> {x.time : x \in input.date},
     notes |-> input.notes,
     durationMinutes |-> {x.n : x \in {y \in input.durationMinutes : ~y.isNull}},
     userId |-> input.userId]

\* updateData, what parse leaves of the input without workoutId (the keys the
\* schema does not name are stripped), with durationMinutes:
\* updateData.durationMinutes ?? undefined
cleanedData(input) ==
    [name |-> input.name,
     date |-> {x.time : x \in input.date},
     notes |-> input.notes,
     durationMinutes |-> {x.n : x \in {y \in input.durationMinutes : ~y.isNull}},
     userId |-> {}]

\* Mutant: the owner taken from the payload when it names one.
HelperUserIdFromPayload(u, input) ==
    IF input.userId = {} THEN u.id ELSE CHOOSE x \in input.userId : TRUE

\* The userId the actions pass to the data helper: user.id.
HelperUserId(u, input) == u.id

CreateInputs ==
    {[NoInput EXCEPT !.name = {"Leg Day"}, !.date = {DateValue(1)},
                     !.durationMinutes = {Number(60)},
                     !.createdAt = {DateValue(7)}, !.updatedAt = {DateValue(7)}],
     [NoInput EXCEPT !.name = {"Leg Day"}, !.date = {DateValue(1)},
                     !.durationMinutes = {Number(60)}, !.userId = {2},
                     !.createdAt = {DateValue(7)}, !.updatedAt = {DateValue(7)}],
     [NoInput EXCEPT !.name = {""}, !.date = {DateValue(1)}]}

UpdateInputs ==
    {[NoInput EXCEPT !.workoutId = {Uuid(w)}, !.name = {"Pull Day"},
                     !.userId = {2},
                     !.createdAt = {DateValue(7)}, !.updatedAt = {DateValue(7)}] :
        w \in WorkoutIdArgs \ {0}}
    \cup {[NoInput EXCEPT !.workoutId = {Uuid(w)}, !.durationMinutes = {JsNull}] :
        w \in WorkoutIdArgs \ {0}}
    \cup {[NoInput EXCEPT !.workoutId = {NotUuid(3)}, !.name = {"Pull Day"}]}

(***************************************************************************)
(* The server actions.  Step 1, validation, runs when the action is        *)
(* called; a ZodError ends the call.                                       *)
(***************************************************************************)
\* Mutant: the outcome of the validation is not looked at.
CallCreateWorkoutActionUnchecked(p, input) ==
    /\ pc[p] = "idle"
    /\ op' = [op EXCEPT ![p] = [kind |-> "createWorkoutAction", workoutId |-> 0,
                                userId |-> 0,
                                data |-> [name |-> input.name,
                                          date |-> {x.time : x \in input.date},
                                          notes |-> input.notes,
                                          durationMinutes |->
                                              {x.n : x \in input.durationMinutes}],
                                input |-> input]]
    /\ res' = [res EXCEPT ![p] = Pending]
    /\ pc' = [pc EXCEPT ![p] = "getCurrentUser"]
    /\ log' = [log EXCEPT ![p] = <<"validate">>]
    /\ UNCHANGED <<users, workouts, exercises, sets, nextId, now, user,
                   revalidated>>

CallCreateWorkoutAction(p, input) ==
    /\ Free(p)
    /\ IF createWorkoutSchemaAccepts(input)
       THEN /\ Call(p, "createWorkoutAction", 0, 0,
                    createWorkoutSchemaParse(input), input)
            /\ res' = [res EXCEPT ![p] = Pending]
            /\ pc' = [pc EXCEPT ![p] = "getCurrentUser"]
       ELSE /\ Call(p, "createWorkoutAction", 0, 0, NoData, input)
            /\ res' = [res EXCEPT ![p] = Threw("ZodError")]
            /\ pc' = [pc EXCEPT ![p] = "done"]
    /\ log' = [log EXCEPT ![p] = <<"validate">>]
    /\ UNCHANGED <<users, workouts, exercises, sets, nextId, now>>

CallUpdateWorkoutAction(p, input) ==
    /\ Free(p)
    /\ IF updateWorkoutSchemaAccepts(input)
       THEN /\ Call(p, "updateWorkoutAction",
                    CHOOSE w \in {x.id : x \in input.workoutId} : TRUE, 0,
                    cleanedData(input), input)
            /\ res' = [res EXCEPT ![p] = Pending]
            /\ pc' = [pc EXCEPT ![p] = "getCurrentUser"]
       ELSE /\ Call(p, "updateWorkoutAction", 0, 0, NoData, input)
            /\ res' = [res EXCEPT ![p] = Threw("ZodError")]
            /\ pc' = [pc EXCEPT ![p] = "done"]
    /\ log' = [log EXCEPT ![p] = <<"validate">>]
    /\ UNCHANGED <<users, workouts, exercises, sets, nextId, now>>

\* Mutant: the paths are invalidated before the helper is called.
EnterHelperRevalidateFirst(p, u) ==
    /\ user' = [user EXCEPT ![p] = {u}]
    /\ op' = [op EXCEPT ![p].userId = u.id]
    /\ pc' = [pc EXCEPT ![p] = "revalidatePath"]

\* Step 3 of the action p serves, or the fetch of the page p renders,
\* entered with the resolved user u.
EnterHelper(p, u) ==
    /\ user' = [user EXCEPT ![p] = {u}]
    /\ op' = [op EXCEPT ![p].userId = HelperUserId(u, op[p].input)]
    /\ pc' = [pc EXCEPT ![p] = IF op[p].kind = "createWorkoutAction"
                               THEN "createWorkout"
                               ELSE IF op[p].kind = "updateWorkoutAction"
                                    THEN "updateWorkout" ELSE "getWorkoutById"]

\* getCurrentUser, first statement: select ... where email = TEMP_USER_EMAIL
GetCurrentUserSelect(p) ==
    LET existingUsers == {u \in users : u.email = TEMP_USER_EMAIL}
    IN  /\ pc[p] = "getCurrentUser"
        /\ log' = [log EXCEPT ![p] = Append(@, "getCurrentUser")]
        /\ IF existingUsers # {}
           THEN EnterHelper(p, CHOOSE u \in existingUsers : TRUE)
           ELSE /\ pc' = [pc EXCEPT ![p] = "insertUser"]
                /\ UNCHANGED <<op, user>>
        /\ UNCHANGED <<users, workouts, exercises, sets, nextId, now, res,
                       revalidated>>

\* getCurrentUser, second statement: insert the test user.  email and
\* username are unique.
GetCurrentUserInsert(p) ==
    LET newUser == [id |-> nextId, email |-> TEMP_USER_EMAIL,
                    username |-> TEMP_USERNAME, passwordHash |-> "temporary_hash"]
    IN  /\ pc[p] = "insertUser"
        /\ nextId <= MaxIds
        /\ IF \E u \in users : u.email = newUser.email \/ u.username = newUser.username
           THEN /\ res' = [res EXCEPT ![p] = Threw("duplicate key value")]
                /\ pc' = [pc EXCEPT ![p] = "done"]
                /\ UNCHANGED <<users, nextId, op, user>>
           ELSE /\ users' = users \cup {newUser}
                /\ nextId' = nextId + 1
                /\ res' = res
                /\ EnterHelper(p, newUser)
        /\ UNCHANGED <<workouts, exercises, sets, now, log, revalidated>>

\* Mutant: the insert is sent again after the first answer, as a retry
\* would; the second row gets the next id.
CreateWorkoutInsertRetried(p, t) ==
    LET row == createWorkout(op[p].userId, op[p].data, t)
        again == [row EXCEPT !.id = nextId + 1]
    IN  /\ pc[p] = "createWorkout"
        /\ nextId <= MaxIds
        /\ log' = [log EXCEPT ![p] = Append(@, "createWorkout")]
        /\ IF \E u \in users : u.id = row.userId
           THEN /\ workouts' = workouts \cup {row, again}
                /\ nextId' = nextId + 2
                /\ now' = t
                /\ op' = [op EXCEPT ![p].workoutId = row.id]
                /\ res' = [res EXCEPT ![p] = Returned({row})]
                /\ pc' = [pc EXCEPT ![p] = AfterHelper(p)]
           ELSE /\ res' = [res EXCEPT ![p] = Threw("violates foreign key constraint")]
                /\ pc' = [pc EXCEPT ![p] = "done"]
                /\ UNCHANGED <<workouts, nextId, now, op>>
        /\ UNCHANGED <<users, exercises, sets, user, revalidated>>

\* createWorkout: insert into workouts ... returning.  user_id references
\* users(id).
CreateWorkoutInsert(p, t) ==
    LET row == createWorkout(op[p].userId, op[p].data, t)
    IN  /\ pc[p] = "createWorkout"
        /\ nextId <= MaxIds
        /\ log' = [log EXCEPT ![p] = Append(@, "createWorkout")]
        /\ IF \E u \in users : u.id = row.userId
           THEN /\ workouts' = workouts \cup {row}
                /\ nextId' = nextId + 1
                /\ now' = t
                /\ op' = [op EXCEPT ![p].workoutId = row.id]
                /\ res' = [res EXCEPT ![p] = Returned({row})]
                /\ pc' = [pc EXCEPT ![p] = AfterHelper(p)]
           ELSE /\ res' = [res EXCEPT ![p] = Threw("violates foreign key constraint")]
                /\ pc' = [pc EXCEPT ![p] = "done"]
                /\ UNCHANGED <<workouts, nextId, now, op>>
        /\ UNCHANGED <<users, exercises, sets, user, revalidated>>

Path(route, workoutId) == [route |-> route, workoutId |-> workoutId]

\* Mutant: updateWorkoutAction without its second revalidatePath.
PathsOfDashboardOnly(call) == {Path("/dashboard", {})}

\* The paths an action invalidates once its helper has returned.
PathsOf(call) ==
    IF call.kind = "createWorkoutAction"
    THEN {Path("/dashboard", {})}
    ELSE {Path("/dashboard", {}), Path("/dashboard/workout/", {call.workoutId})}

\* Step 4: revalidatePath(...), then return workout.
Revalidate(p) ==
    /\ pc[p] = "revalidatePath"
    /\ revalidated' = [revalidated EXCEPT ![p] = PathsOf(op[p])]
    /\ log' = [log EXCEPT ![p] = Append(@, "revalidatePath")]
    /\ pc' = [pc EXCEPT ![p] = "done"]
    /\ UNCHANGED <<users, workouts, exercises, sets, nextId, now, op, user, res>>

(***************************************************************************)
(* Statements issued outside the helpers: db/seed.ts inserts exercises and *)
(* sets; a user row is deleted by its id.  The foreign keys decide what    *)
(* the database accepts and what it cascades to.  The seed numbers the     *)
(* exercises of a workout and the sets of an exercise 1, 2, 3, ...         *)
(***************************************************************************)
OrderArgs == 1 .. MaxIds

InsertExercise(workoutId, orderInWorkout) ==
    /\ nextId <= MaxIds
    /\ orderInWorkout = 1 + Cardinality({e \in exercises : e.workoutId = workoutId})
    /\ \E w \in workouts : w.id = workoutId
    /\ exercises' = exercises \cup {[id |-> nextId, workoutId |-> workoutId,
                                     orderInWorkout |-> orderInWorkout]}
    /\ nextId' = nextId + 1
    /\ UNCHANGED <<users, workouts, sets, now, pc, op, user, res, log,
                   revalidated>>

InsertSet(exerciseId, setNumber) ==
    /\ nextId <= MaxIds
    /\ setNumber = 1 + Cardinality({x \in sets : x.exerciseId = exerciseId})
    /\ \E e \in exercises : e.id = exerciseId
    /\ sets' = sets \cup {[id |-> nextId, exerciseId |-> exerciseId,
                           setNumber |-> setNumber]}
    /\ nextId' = nextId + 1
    /\ UNCHANGED <<users, workouts, exercises, now, pc, op, user, res, log,
                   revalidated>>

DeleteUser(userId) ==
    LET deleted == {u \in users : u.id = userId}
        gone == workouts \ CascadeWorkouts({userId})
    IN  /\ deleted # {}
        /\ users' = users \ deleted
        /\ DeleteWorkoutRows(gone)
        /\ UNCHANGED <<nextId, now, pc, op, user, res, log, revalidated>>

Next ==
    \/ \E p \in Procs, w \in WorkoutIdArgs, u \in UserIdArgs :
          CallGetWorkoutById(p, w, u) /\ UNCHANGED form
    \/ \E p \in Procs, w \in WorkoutIdArgs, u \in UserIdArgs :
          CallDeleteWorkout(p, w, u) /\ UNCHANGED form
    \/ \E p \in Procs, w \in WorkoutIdArgs, u \in UserIdArgs, d \in DataArgs :
          CallUpdateWorkout(p, w, u, d) /\ UNCHANGED form
    \/ \E p \in Procs : UpdateWorkoutVerify(p) /\ UNCHANGED form
    \/ \E p \in Procs, t \in Clock : UpdateWorkoutWrite(p, t) /\ UNCHANGED form
    \/ \E p \in Procs, i \in CreateInputs : CallCreateWorkoutAction(p, i)
          /\ UNCHANGED form
    \/ \E p \in Procs, i \in UpdateInputs : CallUpdateWorkoutAction(p, i)
          /\ UNCHANGED form
    \/ \E p \in Procs : GetCurrentUserSelect(p) /\ UNCHANGED form
    \/ \E p \in Procs : GetCurrentUserInsert(p) /\ UNCHANGED form
    \/ \E p \in Procs, t \in Clock : CreateWorkoutInsert(p, t) /\ UNCHANGED form
    \/ \E p \in Procs : Revalidate(p) /\ UNCHANGED form
    \/ \E w \in {x.id : x \in workouts}, o \in OrderArgs : InsertExercise(w, o)
          /\ UNCHANGED form
    \/ \E e \in {x.id : x \in exercises}, n \in OrderArgs : InsertSet(e, n)
          /\ UNCHANGED form
    \/ \E u \in UserIdArgs : DeleteUser(u) /\ UNCHANGED form

Spec == Init /\ [][Next]_vars

(***************************************************************************)
(* The reads on their own: the tables hold any part of a population of     *)
(* workouts dated around the two midnights of one day, some back-dated and *)
(* two created at the same instant, with exercises and sets numbered out   *)
(* of insertion                                                            *)
(* order and one number used twice.  A behaviour is one read call (or one  *)
(* caller reading twice) against such tables.                              *)
(***************************************************************************)
ReadWorkouts ==
    {[id |-> 3, userId |-> 1, name |-> "Push Day", date |-> MsPerDay - 1,
      notes |-> {}, durationMinutes |-> {75}, createdAt |-> 2, updatedAt |-> 2],
     [id |-> 4, userId |-> 1, name |-> "Leg Day", date |-> MsPerDay,
      notes |-> {"Felt strong"}, durationMinutes |-> {}, createdAt |-> 0, updatedAt |-> 2],
     [id |-> 5, userId |-> 1, name |-> "Pull Day", date |-> MsPerDay + EndOfDayMs,
      notes |-> {}, durationMinutes |-> {60}, createdAt |-> 1, updatedAt |-> 1],
     [id |-> 6, userId |-> 1, name |-> "Leg Day", date |-> 2 * MsPerDay,
      notes |-> {}, durationMinutes |-> {}, createdAt |-> 0, updatedAt |-> 0],
     [id |-> 7, userId |-> 1, name |-> "Push Day", date |-> MsPerDay + 12 * 3600000,
      notes |-> {}, durationMinutes |-> {}, createdAt |-> 1, updatedAt |-> 1],
     [id |-> 8, userId |-> 2, name |-> "Push Day", date |-> MsPerDay + 1000,
      notes |-> {}, durationMinutes |-> {75}, createdAt |-> 0, updatedAt |-> 0]}

ReadExercises ==
    {[id |-> 9, workoutId |-> 4, orderInWorkout |-> 2],
     [id |-> 10, workoutId |-> 4, orderInWorkout |-> 1],
     [id |-> 11, workoutId |-> 4, orderInWorkout |-> 2]}

ReadSets ==
    {[id |-> 12, exerciseId |-> 9, setNumber |-> 2],
     [id |-> 13, exerciseId |-> 9, setNumber |-> 1],
     [id |-> 14, exerciseId |-> 10, setNumber |-> 1]}

ReadInit ==
    /\ users = {SeedTestUser, SeedJohn, SeedSarah}
    /\ workouts \in SUBSET ReadWorkouts
    /\ exercises \in SUBSET {e \in ReadExercises : \E w \in workouts : w.id = e.workoutId}
    /\ sets \in {{}, {x \in ReadSets : \E e \in exercises : e.id = x.exerciseId}}
    /\ nextId = 16
    /\ now = 2
    /\ pc = [p \in Procs |-> "idle"]
    /\ op = [p \in Procs |-> NoCall]
    /\ user = [p \in Procs |-> {}]
    /\ res = [p \in Procs |-> Pending]
    /\ log = [p \in Procs |-> <<>>]
    /\ revalidated = [p \in Procs |-> {}]
    /\ form = [p \in Procs |-> NoForm]

\* No request has been dispatched yet.
NoneCalled == \A p \in Procs : Free(p)

\* The dates readers ask for: the first, a middle and the last millisecond
\* of the day.
DateArgs == {MsPerDay, MsPerDay + 12 * 3600000, MsPerDay + EndOfDayMs}

CallGetWorkoutsForUserByDate(p, userId, date) ==
    /\ Free(p)
    /\ Call(p, "getWorkoutsForUserByDate", 0, userId,
            [NoData EXCEPT !.date = {date}], NoInput)
    /\ \E workoutsWithData \in getWorkoutsForUserByDate(userId, date) :
          res' = [res EXCEPT ![p] = Returned(workoutsWithData)]
    /\ pc' = [pc EXCEPT ![p] = "done"]
    /\ log' = [log EXCEPT ![p] = <<>>]
    /\ UNCHANGED <<users, workouts, exercises, sets, nextId, now>>

CallGetAllWorkoutsForUser(p, userId) ==
    /\ Free(p)
    /\ Call(p, "getAllWorkoutsForUser", 0, userId, NoData, NoInput)
    /\ \E userWorkouts \in getAllWorkoutsForUser(userId) :
          res' = [res EXCEPT ![p] = Returned(userWorkouts)]
    /\ pc' = [pc EXCEPT ![p] = "done"]
    /\ log' = [log EXCEPT ![p] = <<>>]
    /\ UNCHANGED <<users, workouts, exercises, sets, nextId, now>>

CallGetWorkoutByIdWithData(p, workoutId, userId) ==
    /\ Free(p)
    /\ Call(p, "getWorkoutById", workoutId, userId, NoData, NoInput)
    /\ \E workout \in getWorkoutByIdWithData(workoutId, userId) :
          res' = [res EXCEPT ![p] = workout]
    /\ pc' = [pc EXCEPT ![p] = "done"]
    /\ log' = [log EXCEPT ![p] = <<>>]
    /\ UNCHANGED <<users, workouts, exercises, sets, nextId, now>>

\* A caller that awaits getWorkoutsForUserByDate twice with the same
\* arguments, nothing being written in between: p holds the first answer, q
\* the second.
GetWorkoutsForUserByDateTwice(p, q, userId, date) ==
    /\ p # q /\ Free(p) /\ Free(q)
    /\ op' = [op EXCEPT ![p] = [kind |-> "getWorkoutsForUserByDate", workoutId |-> 0,
                                userId |-> userId,
                                data |-> [NoData EXCEPT !.date = {date}],
                                input |-> NoInput],
                        ![q] = [kind |-> "getWorkoutsForUserByDate", workoutId |-> 0,
                                userId |-> userId,
                                data |-> [NoData EXCEPT !.date = {date}],
                                input |-> NoInput]]
    /\ \E first \in getWorkoutsForUserByDate(userId, date),
          second \in getWorkoutsForUserByDate(userId, date) :
          res' = [res EXCEPT ![p] = Returned(first), ![q] = Returned(second)]
    /\ pc' = [pc EXCEPT ![p] = "done", ![q] = "done"]
    /\ UNCHANGED <<users, workouts, exercises, sets, nextId, now, user, log,
                   revalidated>>

ReadNext ==
    /\ NoneCalled
    /\ UNCHANGED form
    /\ \/ \E p \in Procs, u \in UserIdArgs, d \in DateArgs :
             CallGetWorkoutsForUserByDate(p, u, d)
       \/ \E p \in Procs, u \in UserIdArgs : CallGetAllWorkoutsForUser(p, u)
       \/ \E p \in Procs, w \in WorkoutIdArgs, u \in UserIdArgs :
             CallGetWorkoutByIdWithData(p, w, u)
       \/ \E p \in Procs, q \in Procs, u \in UserIdArgs, d \in DateArgs :
             GetWorkoutsForUserByDateTwice(p, q, u, d)

ReadSpec == ReadInit /\ [][ReadNext]_vars

(***************************************************************************)
(* The helpers called directly, with every shape of their data argument,   *)
(* against the seeded tables: createWorkout, updateWorkout, deleteWorkout  *)
(* and getWorkoutById.                                                     *)
(***************************************************************************)
CreateDataArgs ==
    {[name |-> {"Leg Day"}, date |-> {d}, notes |-> n, durationMinutes |-> m] :
        d \in {1, 1500}, n \in {{}, {"Easy"}}, m \in {{}, {60}}}

UpdateDataArgs ==
    {[name |-> a, date |-> d, notes |-> n, durationMinutes |-> m] :
        a \in {{}, {"Pull Day"}}, d \in {{}, {2500}}, n \in {{}, {"Easy"}},
        m \in {{}, {45}}}

\* createWorkout called directly: insert into workouts ... returning, then
\* return newWorkouts[0].
CallCreateWorkout(p, userId, data, t) ==
    LET row == createWorkout(userId, data, t)
    IN  /\ Free(p)
        /\ nextId <= MaxIds
        /\ Call(p, "createWorkout", nextId, userId, data, NoInput)
        /\ IF \E u \in users : u.id = userId
           THEN /\ workouts' = workouts \cup {row}
                /\ nextId' = nextId + 1
                /\ now' = t
                /\ res' = [res EXCEPT ![p] = Returned({row})]
           ELSE /\ res' = [res EXCEPT ![p] = Threw("violates foreign key constraint")]
                /\ UNCHANGED <<workouts, nextId, now>>
        /\ pc' = [pc EXCEPT ![p] = "done"]
        /\ log' = [log EXCEPT ![p] = <<>>]
        /\ UNCHANGED <<users, exercises, sets>>

WriteNext ==
    \/ \E p \in Procs, u \in UserIdArgs, d \in CreateDataArgs, t \in Clock :
          CallCreateWorkout(p, u, d, t) /\ UNCHANGED form
    \/ \E p \in Procs, w \in WorkoutIdArgs, u \in UserIdArgs, d \in UpdateDataArgs :
          CallUpdateWorkout(p, w, u, d) /\ UNCHANGED form
    \/ \E p \in Procs, t \in Clock : UpdateWorkoutWrite(p, t) /\ UNCHANGED form
    \/ \E p \in Procs, w \in WorkoutIdArgs, u \in UserIdArgs :
          CallGetWorkoutByIdWithData(p, w, u) /\ UNCHANGED form
    \/ \E p \in Procs, w \in WorkoutIdArgs, u \in UserIdArgs :
          CallDeleteWorkout(p, w, u) /\ UNCHANGED form

WriteSpec == Init /\ [][WriteNext]_vars

(***************************************************************************)
(* The validation of the two actions on its own: an action is called with  *)
(* an input whose fields are absent or sit on either side of each limit    *)
(* of the schemas.                                                         *)
(***************************************************************************)
BoundaryNames ==
    {{}} \cup {{StringOfLength(n)} : n \in {0, NameMin, NameMax, NameMax + 1}}
BoundaryDates == {{}, {DateValue(1)}, {InvalidDate}}
BoundaryNotes ==
    {{}} \cup {{StringOfLength(n)} : n \in {0, NotesMax, NotesMax + 1}}
BoundaryDurations ==
    {{}, {JsNull}, {NonInteger(DurationMin)}}
    \cup {{Number(n)} : n \in {DurationMin - 1, DurationMin, DurationMax,
                               DurationMax + 1}}
BoundaryWorkoutIds == {{}, {Uuid(3)}, {NotUuid(3)}}

BoundaryCreateInputs ==
    {[NoInput EXCEPT !.name = a, !.date = d, !.notes = n, !.durationMinutes = m] :
        a \in BoundaryNames, d \in BoundaryDates, n \in BoundaryNotes,
        m \in BoundaryDurations}

BoundaryUpdateInputs ==
    {[i EXCEPT !.workoutId = w] : i \in BoundaryCreateInputs, w \in BoundaryWorkoutIds}

ValidationNext ==
    /\ NoneCalled
    /\ UNCHANGED form
    /\ \/ \E p \in Procs, i \in BoundaryCreateInputs : CallCreateWorkoutAction(p, i)
       \/ \E p \in Procs, i \in BoundaryUpdateInputs : CallUpdateWorkoutAction(p, i)

ValidationSpec == Init /\ [][ValidationNext]_vars

(***************************************************************************)
(* The auth stub on its own: the users table starts with or without the    *)
(* test user, nobody deletes a user, and two requests call the actions,    *)
(* each resolving the current user first.                                  *)
(***************************************************************************)
AuthInit ==
    /\ users \in {{SeedJohn}, {SeedTestUser, SeedJohn}}
    /\ workouts = {[id |-> 3, userId |-> 2, name |-> "Push Day", date |-> 0,
                    notes |-> {"Felt strong"}, durationMinutes |-> {75},
                    createdAt |-> 0, updatedAt |-> 0]}
    /\ exercises = {[id |-> 4, workoutId |-> 3, orderInWorkout |-> 1]}
    /\ sets = {[id |-> 5, exerciseId |-> 4, setNumber |-> 1]}
    /\ nextId = 6
    /\ now = 0
    /\ pc = [p \in Procs |-> "idle"]
    /\ op = [p \in Procs |-> NoCall]
    /\ user = [p \in Procs |-> {}]
    /\ res = [p \in Procs |-> Pending]
    /\ log = [p \in Procs |-> <<>>]
    /\ revalidated = [p \in Procs |-> {}]
    /\ form = [p \in Procs |-> NoForm]

AuthNext ==
    \/ \E p \in Procs, i \in CreateInputs : CallCreateWorkoutAction(p, i)
          /\ UNCHANGED form
    \/ \E p \in Procs, i \in UpdateInputs : CallUpdateWorkoutAction(p, i)
          /\ UNCHANGED form
    \/ \E p \in Procs : GetCurrentUserSelect(p) /\ UNCHANGED form
    \/ \E p \in Procs : GetCurrentUserInsert(p) /\ UNCHANGED form
    \/ \E p \in Procs, t \in Clock : CreateWorkoutInsert(p, t) /\ UNCHANGED form
    \/ \E p \in Procs : UpdateWorkoutVerify(p) /\ UNCHANGED form
    \/ \E p \in Procs, t \in Clock : UpdateWorkoutWrite(p, t) /\ UNCHANGED form
    \/ \E p \in Procs : Revalidate(p) /\ UNCHANGED form

AuthSpec == AuthInit /\ [][AuthNext]_vars

(***************************************************************************)
(* The client component NewWorkoutForm: its fields, handleSubmit around    *)
(* the call of createWorkoutAction, and the Cancel button.  Each request   *)
(* slot is one mounted form.                                               *)
(***************************************************************************)
Digits == <<"0", "1", "2", "3", "4", "5", "6", "7", "8", "9">>
IsDigit(c) == \E i \in 1 .. 10 : Digits[i] = c
DigitValue(c) == (CHOOSE i \in 1 .. 10 : Digits[i] = c) - 1

\* The result of parseInt when no digit leads the text.
NaN == [isNull |-> FALSE, isInt |-> FALSE, n |-> 0]

RECURSIVE LeadingDigits(_, _)
\* The value of the digits text starts with, read after the value so far.
LeadingDigits(text, value) ==
    IF text = <<>> \/ ~IsDigit(Head(text)) THEN value
    ELSE LeadingDigits(Tail(text), value * 10 + DigitValue(Head(text)))

\* parseInt(text, 10) of a text given as its characters: an optional sign,
\* then the leading digits; the rest of the text is ignored.
parseInt(text) ==
    LET negative == text # <<>> /\ Head(text) = "-"
        signed == text # <<>> /\ Head(text) \in {"-", "+"}
        digits == IF signed THEN Tail(text) ELSE text
    IN  IF digits = <<>> \/ ~IsDigit(Head(digits)) THEN NaN
        ELSE Number((IF negative THEN -1 ELSE 1) * LeadingDigits(digits, 0))

\* The object handleSubmit passes to createWorkoutAction, from the fields.
FormInput(fields) ==
    [NoInput EXCEPT !.name = {fields.name},
                    !.date = {DateValue(fields.date)},
                    !.notes = IF fields.notes = "" THEN {} ELSE {fields.notes},
                    !.durationMinutes =
                        IF fields.durationMinutes = <<>> THEN {}
                        ELSE {parseInt(fields.durationMinutes)}]

\* What the fields may hold at the submit.
FormFields ==
    {[name |-> "Leg Day", date |-> 1, notes |-> "", durationMinutes |-> <<>>],
     [name |-> "Leg Day", date |-> 1, notes |-> "Easy",
      durationMinutes |-> <<"6", "0">>],
     [name |-> "Leg Day", date |-> 1, notes |-> "",
      durationMinutes |-> <<"1", "2", ".", "5">>],
     [name |-> "Leg Day", date |-> 1, notes |-> "", durationMinutes |-> <<".", "5">>],
     [name |-> "Leg Day", date |-> 1, notes |-> "", durationMinutes |-> <<"0">>],
     [name |-> "", date |-> 1, notes |-> "", durationMinutes |-> <<>>]}

\* handleSubmit up to its await: setIsLoading(true) and the call of
\* createWorkoutAction, which validates the input.
HandleSubmit(p, fields) ==
    /\ ~form[p].isLoading
    /\ form' = [form EXCEPT ![p].submitted = {FormInput(fields)},
                            ![p].isLoading = TRUE]
    /\ CallCreateWorkoutAction(p, FormInput(fields))

\* Mutant: router.push moved into the finally block.
HandleSubmitResumePushAlways(p) ==
    /\ form[p].isLoading /\ pc[p] = "done"
    /\ form' = [form EXCEPT
                  ![p].pushed = Append(@, "/dashboard"),
                  ![p].logged = IF res[p].status = "returned" THEN @
                                ELSE @ \cup {res[p].error},
                  ![p].isLoading = FALSE]
    /\ UNCHANGED <<users, workouts, exercises, sets, nextId, now, pc, op, user,
                   res, log, revalidated>>

\* handleSubmit after its await: router.push("/dashboard") when the action
\* resolved, console.error when it rejected, setIsLoading(false) in both.
HandleSubmitResume(p) ==
    /\ form[p].isLoading /\ pc[p] = "done"
    /\ form' = [form EXCEPT
                  ![p].pushed = IF res[p].status = "returned"
                                THEN Append(@, "/dashboard") ELSE @,
                  ![p].logged = IF res[p].status = "returned" THEN @
                                ELSE @ \cup {res[p].error},
                  ![p].isLoading = FALSE]
    /\ UNCHANGED <<users, workouts, exercises, sets, nextId, now, pc, op, user,
                   res, log, revalidated>>

MaxPushes == 2

\* The Cancel button: onClick={() => router.push("/dashboard")}
CancelOnClick(p) ==
    /\ Len(form[p].pushed) < MaxPushes
    /\ form' = [form EXCEPT ![p].pushed = Append(@, "/dashboard")]
    /\ UNCHANGED <<users, workouts, exercises, sets, nextId, now, pc, op, user,
                   res, log, revalidated>>

FormNext ==
    \/ \E p \in Procs, f \in FormFields : HandleSubmit(p, f)
    \/ \E p \in Procs : HandleSubmitResume(p)
    \/ \E p \in Procs : CancelOnClick(p)
    \/ \E p \in Procs : GetCurrentUserSelect(p) /\ UNCHANGED form
    \/ \E p \in Procs : GetCurrentUserInsert(p) /\ UNCHANGED form
    \/ \E p \in Procs, t \in Clock : CreateWorkoutInsert(p, t) /\ UNCHANGED form
    \/ \E p \in Procs : Revalidate(p) /\ UNCHANGED form

FormSpec == AuthInit /\ [][FormNext]_vars

(***************************************************************************)
(* The server component EditWorkoutPage: await props.params, await         *)
(* getCurrentUser(), then getWorkoutById inside try / catch { notFound() } *)
(* and the render of the edit form with the workout.  The route parameter  *)
(* is any text: when it is no uuid the query itself fails.                 *)
(***************************************************************************)
NotFound == [status |-> "notFound", error |-> "NEXT_HTTP_ERROR_FALLBACK;404",
             rows |-> {}]

PageParams == {Uuid(w) : w \in WorkoutIdArgs} \cup {NotUuid(3)}

CallEditWorkoutPage(p, param) ==
    /\ Free(p)
    /\ Call(p, "EditWorkoutPage", param.id, 0, NoData,
            [NoInput EXCEPT !.workoutId = {param}])
    /\ res' = [res EXCEPT ![p] = Pending]
    /\ pc' = [pc EXCEPT ![p] = "getCurrentUser"]
    /\ log' = [log EXCEPT ![p] = <<"params">>]
    /\ UNCHANGED <<users, workouts, exercises, sets, nextId, now>>

\* Mutant: the page looks the workout up by its id alone.
EditWorkoutPageFetchAnyOwner(p) ==
    /\ pc[p] = "getWorkoutById"
    /\ LET found == MatchWorkoutAnyOwner(op[p].workoutId, op[p].userId)
       IN  res' = [res EXCEPT ![p] = IF found = {} THEN NotFound
                                     ELSE Returned(found)]
    /\ pc' = [pc EXCEPT ![p] = "done"]
    /\ log' = [log EXCEPT ![p] = Append(@, "getWorkoutById")]
    /\ UNCHANGED <<users, workouts, exercises, sets, nextId, now, op, user,
                   revalidated>>

\* try { workout = await getWorkoutById(params.workoutId, user.id) }
\* catch { notFound() }, then the render of <EditWorkoutForm workout=.../>:
\* the page ends with the form and its workout, or with the not-found result.
EditWorkoutPageFetch(p) ==
    /\ pc[p] = "getWorkoutById"
    /\ \E found \in IF \A x \in op[p].input.workoutId : x.uuid
                    THEN getWorkoutByIdWithData(op[p].workoutId, op[p].userId)
                    ELSE {Threw("invalid input syntax for type uuid")} :
          res' = [res EXCEPT ![p] = IF found.status = "threw" THEN NotFound
                                    ELSE found]
    /\ pc' = [pc EXCEPT ![p] = "done"]
    /\ log' = [log EXCEPT ![p] = Append(@, "getWorkoutById")]
    /\ UNCHANGED <<users, workouts, exercises, sets, nextId, now, op, user,
                   revalidated>>

\* The tables when the pages are requested: the seeded workout of the other
\* user and, when the test user exists, a workout of the test user.
PageInit ==
    /\ users \in {{SeedJohn}, {SeedTestUser, SeedJohn}}
    /\ workouts = {[id |-> 3, userId |-> 2, name |-> "Push Day", date |-> 0,
                    notes |-> {"Felt strong"}, durationMinutes |-> {75},
                    createdAt |-> 0, updatedAt |-> 0]}
                  \cup {[id |-> 6, userId |-> u.id, name |-> "Leg Day", date |-> 1,
                         notes |-> {"Easy"}, durationMinutes |-> {60},
                         createdAt |-> 0, updatedAt |-> 0] :
                          u \in {x \in users : x.email = TEMP_USER_EMAIL}}
    /\ exercises = {[id |-> 4, workoutId |-> 3, orderInWorkout |-> 1]}
    /\ sets = {[id |-> 5, exerciseId |-> 4, setNumber |-> 1]}
    /\ nextId = 7
    /\ now = 0
    /\ pc = [p \in Procs |-> "idle"]
    /\ op = [p \in Procs |-> NoCall]
    /\ user = [p \in Procs |-> {}]
    /\ res = [p \in Procs |-> Pending]
    /\ log = [p \in Procs |-> <<>>]
    /\ revalidated = [p \in Procs |-> {}]
    /\ form = [p \in Procs |-> NoForm]

PageNext ==
    \/ \E p \in Procs, w \in PageParams : CallEditWorkoutPage(p, w)
          /\ UNCHANGED form
    \/ \E p \in Procs : GetCurrentUserSelect(p) /\ UNCHANGED form
    \/ \E p \in Procs : GetCurrentUserInsert(p) /\ UNCHANGED form
    \/ \E p \in Procs : EditWorkoutPageFetch(p) /\ UNCHANGED form
    \/ \E p \in Procs, w \in WorkoutIdArgs, u \in UserIdArgs :
          CallDeleteWorkout(p, w, u) /\ UNCHANGED form
    \/ \E w \in {x.id : x \in workouts}, o \in OrderArgs : InsertExercise(w, o)
          /\ UNCHANGED form

PageSpec == PageInit /\ [][PageNext]_vars

(***************************************************************************)
(* The two server actions against tables in which the test user, when it   *)
(* exists, already owns a workout.                                         *)
(***************************************************************************)
ActionSpec == PageInit /\ [][AuthNext]_vars

(***************************************************************************)
(* updateWorkoutAction on the workout of the test user, with every mix of  *)
(* a name, notes (empty or not) and a durationMinutes (a number or null)   *)
(* present or left out.                                                    *)
(***************************************************************************)
OptionalInputs ==
    {[NoInput EXCEPT !.workoutId = {Uuid(6)}, !.name = n, !.notes = s,
                     !.durationMinutes = m] :
        n \in {{}, {"Pull Day"}}, s \in {{}, {""}, {"Hard"}},
        m \in {{}, {JsNull}, {Number(45)}}}

OptionalNext ==
    \/ \E p \in Procs, i \in OptionalInputs : CallUpdateWorkoutAction(p, i)
          /\ UNCHANGED form
    \/ \E p \in Procs : GetCurrentUserSelect(p) /\ UNCHANGED form
    \/ \E p \in Procs : GetCurrentUserInsert(p) /\ UNCHANGED form
    \/ \E p \in Procs : UpdateWorkoutVerify(p) /\ UNCHANGED form
    \/ \E p \in Procs, t \in Clock : UpdateWorkoutWrite(p, t) /\ UNCHANGED form
    \/ \E p \in Procs : Revalidate(p) /\ UNCHANGED form

OptionalSpec == PageInit /\ [][OptionalNext]_vars

(***************************************************************************)
(* POST /api/auth/login.  The body is a JSON object whose username and     *)
(* password, when present, are strings or numbers.  bcrypt.compare rejects *)
(* a password that is not a string, answers false for a hash that is not   *)
(* 60 characters long, and otherwise tells whether the hash was made from  *)
(* the password.                                                           *)
(***************************************************************************)
JsonString(s) == [type |-> "string", s |-> s, n |-> 0]
JsonNumber(n) == [type |-> "number", s |-> "", n |-> n]

\* !value is false: the key is present and neither "" nor 0.
Truthy(value) ==
    /\ value # {}
    /\ \A x \in value : IF x.type = "string" THEN x.s # "" ELSE x.n # 0

BcryptHashLength == 60
BcryptPrefix == "$2a$10$"

\* A hash bcrypt makes of a password: 60 characters that depend on it.
BcryptHash(password) ==
    BcryptPrefix \o password
        \o StringOfLength(BcryptHashLength - Len(BcryptPrefix) - Len(password))

\* await bcrypt.compare(password, hash)
BcryptCompare(password, hash) ==
    IF password.type # "string" THEN "Illegal arguments"
    ELSE IF Len(hash) # BcryptHashLength THEN "false"
    ELSE IF hash = BcryptHash(password.s) THEN "true" ELSE "false"

Responded(code, body) ==
    [status |-> "responded", error |-> "", rows |-> {}, code |-> code,
     body |-> body]
Failure(message) == [success |-> FALSE, message |-> message, user |-> {}]

\* A user whose password_hash bcrypt made (no code here inserts one).
RegisteredUser ==
    [id |-> 15, email |-> "lisa@example.com", username |-> "lisa_lifts",
     passwordHash |-> BcryptHash("secret")]

LoginInit ==
    /\ users \in {{SeedTestUser, SeedJohn}, {SeedTestUser, SeedJohn, RegisteredUser}}
    /\ workouts = {[id |-> 3, userId |-> 2, name |-> "Push Day", date |-> 0,
                    notes |-> {"Felt strong"}, durationMinutes |-> {75},
                    createdAt |-> 0, updatedAt |-> 0]}
    /\ exercises = {[id |-> 4, workoutId |-> 3, orderInWorkout |-> 1]}
    /\ sets = {[id |-> 5, exerciseId |-> 4, setNumber |-> 1]}
    /\ nextId = 16
    /\ now = 0
    /\ pc = [p \in Procs |-> "idle"]
    /\ op = [p \in Procs |-> NoCall]
    /\ user = [p \in Procs |-> {}]
    /\ res = [p \in Procs |-> Pending]
    /\ log = [p \in Procs |-> <<>>]
    /\ revalidated = [p \in Procs |-> {}]
    /\ form = [p \in Procs |-> NoForm]

LoginBodies ==
    {[username |-> u, password |-> w] :
        u \in {{}, {JsonString("")}, {JsonString("john_lifter")},
               {JsonString("lisa_lifts")}, {JsonString("nobody")}},
        w \in {{}, {JsonString("")}, {JsonString("secret")}, {JsonString("wrong")},
               {JsonNumber(123)}}}

\* POST up to its first await on the database: request.json() and the check
\* of the two keys.
PostLogin(p, body) ==
    /\ Free(p)
    /\ Call(p, "POST /api/auth/login", 0, 0, NoData, body)
    /\ log' = [log EXCEPT ![p] = <<"request.json">>]
    /\ IF ~Truthy(body.username) \/ ~Truthy(body.password)
       THEN /\ res' = [res EXCEPT ![p] =
                         Responded(400, Failure("Username and password are required"))]
            /\ pc' = [pc EXCEPT ![p] = "done"]
       ELSE /\ res' = [res EXCEPT ![p] = Pending]
            /\ pc' = [pc EXCEPT ![p] = "selectUser"]
    /\ UNCHANGED <<users, workouts, exercises, sets, nextId, now>>

\* select ... from users where username = $1 limit 1
LoginSelect(p) ==
    LET found == {u \in users : \E x \in op[p].input.username : u.username = x.s}
    IN  /\ pc[p] = "selectUser"
        /\ log' = [log EXCEPT ![p] = Append(@, "select")]
        /\ IF found = {}
           THEN /\ res' = [res EXCEPT ![p] =
                             Responded(401, Failure("Invalid username or password"))]
                /\ pc' = [pc EXCEPT ![p] = "done"]
                /\ user' = user
           ELSE /\ user' = [user EXCEPT ![p] = {CHOOSE u \in found : TRUE}]
                /\ pc' = [pc EXCEPT ![p] = "bcrypt.compare"]
                /\ res' = res
        /\ UNCHANGED <<users, workouts, exercises, sets, nextId, now, op,
                       revalidated>>

\* bcrypt.compare and the response; a rejection lands in the catch block.
LoginCompare(p) ==
    LET row == CHOOSE u \in user[p] : TRUE
        isPasswordValid ==
            BcryptCompare(CHOOSE x \in op[p].input.password : TRUE, row.passwordHash)
    IN  /\ pc[p] = "bcrypt.compare"
        /\ log' = [log EXCEPT ![p] = Append(@, "bcrypt.compare")]
        /\ res' = [res EXCEPT ![p] =
              IF isPasswordValid = "Illegal arguments"
              THEN Responded(500, Failure("An error occurred during login"))
              ELSE IF isPasswordValid = "false"
              THEN Responded(401, Failure("Invalid username or password"))
              ELSE Responded(200, [success |-> TRUE, message |-> "Login successful",
                                   user |-> {[id |-> row.id,
                                              username |-> row.username,
                                              email |-> row.email]}])]
        /\ pc' = [pc EXCEPT ![p] = "done"]
        /\ UNCHANGED <<users, workouts, exercises, sets, nextId, now, op, user,
                       revalidated>>

LoginNext ==
    \/ \E p \in Procs, b \in LoginBodies : PostLogin(p, b) /\ UNCHANGED form
    \/ \E p \in Procs : LoginSelect(p) /\ UNCHANGED form
    \/ \E p \in Procs : LoginCompare(p) /\ UNCHANGED form

LoginSpec == LoginInit /\ [][LoginNext]_vars

(***************************************************************************)
(* Properties.                                                             *)
(***************************************************************************)
HelperKinds == {"getWorkoutById", "updateWorkout", "deleteWorkout"}

\* The workout exists and belongs to someone other than the caller.
Foreign(workoutId, userId) ==
    \E w \in workouts : w.id = workoutId /\ w.userId # userId

\* No workout has this id.
Absent(workoutId) == \A w \in workouts : w.id # workoutId

\* p makes one of the three ownership-checked helper calls on (w, u): directly,
\* or as the updateWorkout of an updateWorkoutAction.
HelperStep(p, w, u) ==
    \/ CallGetWorkoutById(p, w, u)
    \/ CallDeleteWorkout(p, w, u)
    \/ \E d \in DataArgs : CallUpdateWorkout(p, w, u, d)
    \/ UpdateWorkoutVerify(p) /\ op[p].workoutId = w /\ op[p].userId = u

\* C1: a user who calls getWorkoutById, updateWorkout or deleteWorkout on a
\* workout of another user gets the 'Workout not found or unauthorized' error,
\* the call ends there, and no workout, exercise or set changes.
C1_ForeignCallFailsAndChangesNothing ==
    [][\A p \in Procs, w \in WorkoutIdArgs, u \in UserIdArgs :
         (Foreign(w, u) /\ HelperStep(p, w, u))
         => /\ res'[p] = Threw(NotFoundError)
            /\ pc'[p] = "done"
            /\ UNCHANGED <<workouts, exercises, sets>>]_vars

\* Both requests have called a helper that writes (one updateWorkout, one
\* deleteWorkout) on a workout that exists under another owner.
C1_Witness ==
    \E p \in Procs, q \in Procs :
        /\ pc[p] = "done" /\ op[p].kind = "deleteWorkout"
        /\ pc[q] = "done" /\ op[q].kind = "updateWorkout"
        /\ Foreign(op[p].workoutId, op[p].userId)
        /\ Foreign(op[q].workoutId, op[q].userId)
        /\ Provided(op[q].data) # {}
        /\ res[p] = Threw(NotFoundError) /\ res[q] = Threw(NotFoundError)

\* C2: the row createWorkoutAction inserts and returns belongs to the user
\* getCurrentUser resolved, the test user, whatever userId the payload
\* carries; two calls resolved to the same user create workouts of the same
\* owner.
C2_OwnerIsCurrentUser ==
    [][\A p \in Procs, t \in Clock :
         (CreateWorkoutInsert(p, t) /\ res'[p].status = "returned")
         => /\ res'[p].rows = workouts' \ workouts
            /\ \E u \in user[p] :
                 /\ u.email = TEMP_USER_EMAIL
                 /\ \A row \in res'[p].rows : row.userId = u.id
            /\ \A q \in Procs : \A r1 \in res'[p].rows, r2 \in res[q].rows :
                 (op[q].kind = "createWorkoutAction" /\ user[q] = user[p])
                 => r1.userId = r2.userId]_vars

\* Two createWorkoutAction calls whose inputs differ only in the payload's
\* userId (one names the other user) have both returned their row.
C2_Witness ==
    \E p \in Procs, q \in Procs :
        /\ op[p].kind = "createWorkoutAction" /\ op[q].kind = "createWorkoutAction"
        /\ res[p].status = "returned" /\ res[q].status = "returned"
        /\ op[p].input.userId # {} /\ op[q].input.userId = {}
        /\ [op[p].input EXCEPT !.userId = {}] = op[q].input
        /\ \A row \in res[p].rows : row.userId \notin op[p].input.userId
        /\ \A r1 \in res[p].rows, r2 \in res[q].rows : r1.userId = r2.userId

\* C3: an updateWorkout that a user of the users table has called with a field
\* to set, and that has run its statements, ends in one of two ways: it returns the updated row, or it
\* fails with 'Workout not found or unauthorized'.  In particular it does not
\* complete without a row when the row is gone by the time of the UPDATE.
C3_UpdateReturnsRowOrNotFound ==
    \A p \in Procs :
        (/\ op[p].kind \in {"updateWorkout", "updateWorkoutAction"}
         /\ Provided(op[p].data) # {}
         /\ \E u \in users : u.id = op[p].userId
         /\ Len(log[p]) > 0 /\ log[p][Len(log[p])] \in {"updateWorkout", "revalidatePath"}
         /\ pc[p] \in {"revalidatePath", "done"})
        => \/ res[p].status = "returned" /\ res[p].rows # {}
           \/ res[p] = Threw(NotFoundError)

\* C4: getWorkoutById, updateWorkout and deleteWorkout answer a workout id
\* that does not exist and one that exists under another owner with the same
\* failure: one error, one message, no row.
C4_SameFailureAbsentOrForeign ==
    [][\A p \in Procs, w \in WorkoutIdArgs, u \in UserIdArgs :
         ((Absent(w) \/ Foreign(w, u)) /\ HelperStep(p, w, u))
         => res'[p] = Threw(NotFoundError)]_vars

\* The same helper has failed the same way for two callers: one asked for an
\* id no workout ever had, the other for a workout that exists under another
\* owner.
C4_Witness ==
    \E p \in Procs, q \in Procs :
        /\ pc[p] = "done" /\ pc[q] = "done"
        /\ op[p].kind = "getWorkoutById" /\ op[q].kind = "getWorkoutById"
        /\ op[p].workoutId = 0
        /\ Foreign(op[q].workoutId, op[q].userId)
        /\ res[p] = res[q] /\ res[p].status = "threw"

\* C5: deleteWorkout removes exactly the one workout row with the given id
\* and owner and returns it; with no such row it throws 'Workout not found or
\* unauthorized' and no table loses a row.
C5_DeleteExactlyTheOwnedRow ==
    [][\A p \in Procs, w \in WorkoutIdArgs, u \in UserIdArgs :
         CallDeleteWorkout(p, w, u)
         => LET target == {x \in workouts : x.id = w /\ x.userId = u}
            IN  IF target # {}
                THEN /\ Cardinality(target) = 1
                     /\ workouts' = workouts \ target
                     /\ res'[p] = Returned(target)
                     /\ users' = users
                ELSE /\ res'[p] = Threw(NotFoundError)
                     /\ UNCHANGED <<users, workouts, exercises, sets>>]_vars

\* One deleteWorkout has returned the row it removed, and one has failed.
C5_Witness ==
    \E p \in Procs, q \in Procs :
        /\ op[p].kind = "deleteWorkout" /\ op[q].kind = "deleteWorkout"
        /\ res[p].status = "returned" /\ res[p].rows # {}
        /\ res[p].rows \cap workouts = {}
        /\ res[q] = Threw(NotFoundError)

ActionKinds == {"createWorkoutAction", "updateWorkoutAction"}

\* p's call has ended in a validation error and has touched nothing.
Rejected(p) ==
    /\ res'[p] = Threw("ZodError")
    /\ pc'[p] = "done"
    /\ log'[p] = <<"validate">>
    /\ user'[p] = {}
    /\ revalidated'[p] = {}
    /\ UNCHANGED <<users, workouts, exercises, sets, nextId>>

\* C6: an input that fails validation ends createWorkoutAction and
\* updateWorkoutAction at once with the validation error: no table changes,
\* getCurrentUser is not invoked (no user row appears, then or later), and no
\* path is invalidated.
C6_ValidationFailureTouchesNothing ==
    [][\A p \in Procs :
         /\ \A i \in CreateInputs :
              (CallCreateWorkoutAction(p, i) /\ ~createWorkoutSchemaAccepts(i))
              => Rejected(p)
         /\ \A i \in UpdateInputs :
              (CallUpdateWorkoutAction(p, i) /\ ~updateWorkoutSchemaAccepts(i))
              => Rejected(p)
         /\ res[p] = Threw("ZodError")
            => UNCHANGED <<pc[p], log[p], user[p], revalidated[p], res[p]>>]_vars

\* createWorkoutAction was called with name "" and updateWorkoutAction with a
\* malformed workout id while the test user's row was missing; both failed
\* and the row is still missing.
C6_Witness ==
    \E p \in Procs, q \in Procs :
        /\ op[p].kind = "createWorkoutAction" /\ op[p].input.name = {""}
        /\ op[q].kind = "updateWorkoutAction"
        /\ \E x \in op[q].input.workoutId : ~x.uuid
        /\ res[p] = Threw("ZodError") /\ res[q] = Threw("ZodError")
        /\ \A u \in users : u.email # TEMP_USER_EMAIL

\* The four steps of an action, in the order of its source.
StepsOf(kind) ==
    <<"validate", "getCurrentUser",
      IF kind = "createWorkoutAction" THEN "createWorkout" ELSE "updateWorkout",
      "revalidatePath">>

IsPrefix(a, b) == Len(a) <= Len(b) /\ \A i \in 1 .. Len(a) : a[i] = b[i]

Accepted(call) ==
    IF call.kind = "createWorkoutAction"
    THEN createWorkoutSchemaAccepts(call.input)
    ELSE updateWorkoutSchemaAccepts(call.input)

\* C7: the steps an action has started are an initial part of validate,
\* getCurrentUser, data helper, revalidatePath, in that order; getCurrentUser
\* starts only for an accepted input, the helper only with the id of the user
\* that was resolved, and revalidatePath only after the helper has returned.
C7_StepsInOrder ==
    \A p \in Procs :
        op[p].kind \in ActionKinds
        => /\ Len(log[p]) >= 1
           /\ IsPrefix(log[p], StepsOf(op[p].kind))
           /\ Len(log[p]) >= 2 => Accepted(op[p])
           /\ Len(log[p]) >= 3 =>
                 /\ user[p] # {}
                 /\ \A u \in user[p] : op[p].userId = u.id
           /\ Len(log[p]) = 4 => res[p].status = "returned"
           /\ res[p].status = "threw" => pc[p] = "done"

\* One createWorkoutAction and one updateWorkoutAction have run all four
\* steps.
C7_Witness ==
    \E p \in Procs, q \in Procs :
        /\ op[p].kind = "createWorkoutAction" /\ Len(log[p]) = 4 /\ pc[p] = "done"
        /\ op[q].kind = "updateWorkoutAction" /\ Len(log[q]) = 4 /\ pc[q] = "done"

\* C8: once deleteWorkout has removed workout W, no exercise references W and
\* no set references an exercise that belonged to W, however many W had.
C8_DeleteLeavesNoRowOfWorkout ==
    [][\A p \in Procs, w \in WorkoutIdArgs, u \in UserIdArgs :
         (CallDeleteWorkout(p, w, u) /\ res'[p].status = "returned")
         => LET mine == {e.id : e \in {x \in exercises : x.workoutId = w}}
            IN  /\ \A e \in exercises' : e.workoutId # w
                /\ \A x \in sets' : x.exerciseId \notin mine
                /\ \A e \in exercises : e.workoutId # w => e \in exercises'
                /\ \A x \in sets : x.exerciseId \notin mine => x \in sets']_vars

\* deleteWorkout has removed the seeded workout, whose exercises and sets had
\* grown by then (ids were handed out, yet both tables are empty).
C8_Witness ==
    \E p \in Procs :
        /\ op[p].kind = "deleteWorkout" /\ res[p].status = "returned"
        /\ \E r \in res[p].rows : r.id = 3
        /\ nextId > 7 /\ workouts = {} /\ exercises = {} /\ sets = {}
        /\ \A q \in Procs : op[q].kind \in {"none", "deleteWorkout"}

\* C9: deleting a user row removes exactly that user's workouts, the
\* exercises of those workouts and the sets of those exercises; the rows of
\* every other user stay.
C9_DeleteUserCascades ==
    [][\A u \in UserIdArgs :
         DeleteUser(u)
         => LET gone == {w.id : w \in {x \in workouts : x.userId = u}}
                goneEx == {e.id : e \in {x \in exercises : x.workoutId \in gone}}
            IN  /\ users' = {x \in users : x.id # u}
                /\ workouts' = {x \in workouts : x.userId # u}
                /\ exercises' = {x \in exercises : x.workoutId \notin gone}
                /\ sets' = {x \in sets : x.exerciseId \notin goneEx}]_vars

\* The seeded owner of workout 3 has been deleted and nothing of that workout
\* is left, while a workout of the test user is still there.
C9_Witness ==
    /\ \A u \in users : u.id # 2
    /\ \A w \in workouts : w.userId # 2
    /\ exercises = {} /\ sets = {}
    /\ \E w \in workouts : \E u \in users : w.userId = u.id

\* C10: every set references exactly one existing exercise, every exercise
\* exactly one existing workout and every workout exactly one existing user.
C10_NoOrphanRows ==
    /\ \A x \in sets : Cardinality({e \in exercises : e.id = x.exerciseId}) = 1
    /\ \A e \in exercises : Cardinality({w \in workouts : w.id = e.workoutId}) = 1
    /\ \A w \in workouts : Cardinality({u \in users : u.id = w.userId}) = 1

\* The database has refused a workout whose user row was deleted after
\* getCurrentUser resolved it, while another user's workout still carries an
\* exercise with a set.
C10_Witness ==
    /\ \E p \in Procs : res[p] = Threw("violates foreign key constraint")
    /\ \E w \in workouts, e \in exercises, x \in sets :
         e.workoutId = w.id /\ x.exerciseId = e.id

ReadKinds == {"getWorkoutsForUserByDate", "getAllWorkoutsForUser"}

\* The ids of the rows of a list.
Ids(rows) == {rows[i].id : i \in 1 .. Len(rows)}

\* C11: getWorkoutsForUserByDate and getAllWorkoutsForUser never fail and
\* return only workouts of the user they are called for, each once: all of
\* that user's workouts for the second, all of that user's workouts of the
\* day for the first, and the empty list when the user has none.
C11_ReadsReturnOnlyOwnWorkouts ==
    \A p \in Procs :
        (op[p].kind \in ReadKinds /\ pc[p] = "done")
        => LET rows == res[p].rows
               mine == {w \in workouts : w.userId = op[p].userId}
           IN  /\ res[p].status = "returned"
               /\ \A i \in 1 .. Len(rows) : rows[i].userId = op[p].userId
               /\ Len(rows) = Cardinality(Ids(rows))
               /\ Ids(rows) \subseteq {w.id : w \in mine}
               /\ op[p].kind = "getAllWorkoutsForUser"
                  => Ids(rows) = {w.id : w \in mine}
               /\ op[p].kind = "getWorkoutsForUserByDate"
                  => \A w \in mine, d \in op[p].data.date :
                        w.date \div MsPerDay = d \div MsPerDay => w.id \in Ids(rows)
               /\ mine = {} => rows = <<>>

\* getAllWorkoutsForUser has returned several workouts of the test user
\* while the table holds a workout of another user.
C11_Witness ==
    \E p \in Procs :
        /\ op[p].kind = "getAllWorkoutsForUser" /\ op[p].userId = 1
        /\ res[p].status = "returned" /\ Len(res[p].rows) >= 2
        /\ \E w \in workouts : w.userId = 2

\* C12: getWorkoutsForUserByDate returns a workout of the user exactly when
\* its date is between 00:00:00.000 and 23:59:59.999, both included, of the
\* day the date argument falls in.  For the day that starts at 86400000 ms:
\* the workout dated 172799999 (id 5) is in, the one dated 172800000 (id 6)
\* and the one dated 86399999 (id 3) are out.
C12_DayBoundaries ==
    \A p \in Procs :
        (op[p].kind = "getWorkoutsForUserByDate" /\ pc[p] = "done")
        => \A d \in op[p].data.date :
             LET day == CHOOSE k \in 0 .. 3 :
                           k * 86400000 <= d /\ d < (k + 1) * 86400000
                 got == Ids(res[p].rows)
             IN  /\ \A w \in workouts :
                      w.userId = op[p].userId
                      => (w.id \in got <=> /\ w.date >= day * 86400000
                                           /\ w.date <= day * 86400000 + 86399999)
                 /\ day = 1
                 /\ \A w \in workouts :
                      (w.userId = op[p].userId /\ w.date = 172799999) => w.id \in got
                 /\ \A i \in 1 .. Len(res[p].rows) :
                      res[p].rows[i].date \notin {86399999, 172800000}

\* The test user's day was read while the table held the workouts dated at
\* the last millisecond of the day before, at the last millisecond of the
\* day and at the first of the day after; only the second is in the answer.
C12_Witness ==
    \E p \in Procs :
        /\ op[p].kind = "getWorkoutsForUserByDate" /\ op[p].userId = 1
        /\ {3, 5, 6} \subseteq {w.id : w \in workouts}
        /\ res[p].status = "returned"
        /\ Ids(res[p].rows) \cap {3, 5, 6} = {5}

\* The workouts a finished read has returned.
ReturnedWorkouts(p) ==
    IF op[p].kind \in ReadKinds
    THEN {res[p].rows[i] : i \in 1 .. Len(res[p].rows)}
    ELSE IF op[p].kind = "getWorkoutById" /\ res[p].status = "returned"
         THEN res[p].rows ELSE {}

\* C13: in every workout the three reads return, exercises holds exactly the
\* exercises of the workout, each once, by ascending orderInWorkout, and the
\* sets of each exercise holds exactly the sets of the exercise, each once,
\* by ascending setNumber.
C13_ExercisesAndSetsSorted ==
    \A p \in Procs : \A w \in ReturnedWorkouts(p) :
        LET ex == w.exercises
        IN  /\ Ids(ex) = {e.id : e \in {x \in exercises : x.workoutId = w.id}}
            /\ Len(ex) = Cardinality(Ids(ex))
            /\ \A i \in 1 .. Len(ex), j \in 1 .. Len(ex) :
                  i < j => ex[i].orderInWorkout <= ex[j].orderInWorkout
            /\ \A i \in 1 .. Len(ex) :
                  LET ss == ex[i].sets
                  IN  /\ Ids(ss) = {x.id : x \in {y \in sets : y.exerciseId = ex[i].id}}
                      /\ Len(ss) = Cardinality(Ids(ss))
                      /\ \A j \in 1 .. Len(ss), k \in 1 .. Len(ss) :
                            j < k => ss[j].setNumber <= ss[k].setNumber

\* A read has returned workout 4 with its three exercises, the one inserted
\* second (id 10, number 1) first, and the sets of exercise 9 with the one
\* inserted second (id 13, number 1) first.
C13_Witness ==
    \E p \in Procs : \E w \in ReturnedWorkouts(p) :
        /\ w.id = 4 /\ Len(w.exercises) = 3
        /\ w.exercises[1].id = 10
        /\ \E i \in 2 .. 3 :
             /\ w.exercises[i].id = 9
             /\ Len(w.exercises[i].sets) = 2
             /\ w.exercises[i].sets[1].id = 13

\* C14: getWorkoutsForUserByDate returns the workouts by descending
\* createdAt, getAllWorkoutsForUser by descending date.
C14_WorkoutsNewestFirst ==
    \A p \in Procs :
        (op[p].kind \in ReadKinds /\ pc[p] = "done")
        => LET rows == res[p].rows
           IN  \A i \in 1 .. Len(rows), j \in 1 .. Len(rows) :
                  i < j => IF op[p].kind = "getWorkoutsForUserByDate"
                           THEN rows[i].createdAt >= rows[j].createdAt
                           ELSE rows[i].date >= rows[j].date

\* The day's read has returned workout 5 (created at 1, dated at the end of
\* the day) before workout 4 (created at 0, dated at its start).
C14_Witness ==
    \E p \in Procs :
        /\ op[p].kind = "getWorkoutsForUserByDate"
        /\ res[p].status = "returned"
        /\ \E i \in 1 .. Len(res[p].rows), j \in 1 .. Len(res[p].rows) :
             i < j /\ res[p].rows[i].id = 5 /\ res[p].rows[j].id = 4

\* C15: createWorkout(userId, data) followed at once by
\* getWorkoutById(created.id, userId) succeeds and returns one record, with no
\* exercises, whose userId is userId and whose name, date, notes and
\* durationMinutes are those of data.
C15_CreateThenGetRoundTrip ==
    [][\A p \in Procs, u \in UserIdArgs, d \in CreateDataArgs, t \in Clock :
         CallCreateWorkout(p, u, d, t)
         => /\ res'[p].status = "returned"
            /\ Cardinality(res'[p].rows) = 1
            /\ \A created \in res'[p].rows :
                 \A fetched \in getWorkoutByIdWithData(created.id, u)' :
                    /\ fetched.status = "returned"
                    /\ Cardinality(fetched.rows) = 1
                    /\ \A x \in fetched.rows :
                         /\ x.id = created.id
                         /\ x.userId = u
                         /\ x.name \in d.name
                         /\ x.date \in d.date
                         /\ x.notes = d.notes
                         /\ x.durationMinutes = d.durationMinutes
                         /\ x.exercises = <<>>]_vars

\* One request has created a workout dated 1500 with notes and no duration,
\* and the other has fetched it by its id for the same user.
C15_Witness ==
    \E p \in Procs, q \in Procs :
        /\ op[p].kind = "createWorkout" /\ res[p].status = "returned"
        /\ op[q].kind = "getWorkoutById" /\ res[q].status = "returned"
        /\ op[q].userId = op[p].userId
        /\ \E r \in res[p].rows :
             /\ op[q].workoutId = r.id
             /\ op[p].data.date = {1500} /\ op[p].data.notes = {"Easy"}
             /\ op[p].data.durationMinutes = {}
             /\ \A x \in res[q].rows :
                  /\ x.exercises = <<>> /\ x.date = 1500 /\ x.notes = {"Easy"}
                  /\ x.durationMinutes = {}

\* The ids of the rows of a list, in the order of the list.
IdsInOrder(rows) == [i \in 1 .. Len(rows) |-> rows[i].id]

\* C16: a caller that reads getWorkoutsForUserByDate twice with the same
\* arguments, nothing being written in between, gets the same workouts in
\* the same order both times, and the reads change no row of any table.
C16_ReadTwiceSameAnswer ==
    [][\A p \in Procs, q \in Procs, u \in UserIdArgs, d \in DateArgs :
         GetWorkoutsForUserByDateTwice(p, q, u, d)
         => /\ IdsInOrder(res'[p].rows) = IdsInOrder(res'[q].rows)
            /\ UNCHANGED <<users, workouts, exercises, sets>>]_vars

\* The action p was called with has refused its input.
ZodRejected(p) == res[p] = Threw("ZodError")

\* C17: createWorkoutAction's validation accepts an input exactly when name
\* has 1 to 255 characters, date is there and coercible to a date, notes is
\* absent or has at most 1000 characters, and durationMinutes is absent or
\* an integer from 1 to 600.
C17_CreateValidationBounds ==
    \A p \in Procs :
        op[p].kind = "createWorkoutAction"
        => LET i == op[p].input
           IN  ~ZodRejected(p)
               <=> /\ i.name # {}
                   /\ \A x \in i.name : Len(x) >= 1 /\ Len(x) <= 255
                   /\ i.date # {}
                   /\ \A x \in i.date : x.valid
                   /\ \A x \in i.notes : Len(x) <= 1000
                   /\ \A x \in i.durationMinutes :
                        ~x.isNull /\ x.isInt /\ x.n >= 1 /\ x.n <= 600

\* createWorkoutAction has accepted a name of 255 characters with notes of
\* 1000 and a duration of 600.
C17_Witness ==
    \E p \in Procs :
        /\ op[p].kind = "createWorkoutAction" /\ ~ZodRejected(p)
        /\ pc[p] = "getCurrentUser"
        /\ \E x \in op[p].input.name : Len(x) = 255
        /\ \E x \in op[p].input.notes : Len(x) = 1000
        /\ \E x \in op[p].input.durationMinutes : x.n = 600

\* A create input all of whose fields are accepted.
AcceptedCreateInput ==
    [NoInput EXCEPT !.name = {"Leg Day"}, !.date = {DateValue(1)}]

C19_UpdateFrame ==
    [][\A p \in Procs, t \in Clock :
         (UpdateWorkoutWrite(p, t) /\ res'[p].status = "returned")
         => LET d == op[p].data
            IN  /\ UNCHANGED <<users, exercises, sets>>
                /\ res'[p].rows = {} => UNCHANGED workouts
                /\ res'[p].rows # {} =>
                   \E old \in workouts, new \in workouts' :
                     /\ old.id = op[p].workoutId /\ new.id = old.id
                     /\ res'[p].rows = {new}
                     /\ workouts' \ {new} = workouts \ {old}
                     /\ new.userId = old.userId /\ new.createdAt = old.createdAt
                     /\ new.updatedAt = t
                     /\ new.name \in (IF d.name = {} THEN {old.name} ELSE d.name)
                     /\ new.date \in (IF d.date = {} THEN {old.date} ELSE d.date)
                     /\ new.notes = (IF d.notes = {} THEN old.notes ELSE d.notes)
                     /\ new.durationMinutes =
                           (IF d.durationMinutes = {} THEN old.durationMinutes
                            ELSE d.durationMinutes)]_vars

\* updateWorkout has written date and notes of the seeded workout and
\* returned it with the new date and notes, its name and duration as seeded,
\* while its exercise and set are still there.
C19_Witness ==
    \E p \in Procs :
        /\ op[p].kind = "updateWorkout" /\ op[p].workoutId = 3
        /\ Provided(op[p].data) = {"date", "notes"}
        /\ res[p].status = "returned"
        /\ \E r \in res[p].rows :
             /\ r.name = "Push Day" /\ r.durationMinutes = {75}
             /\ r.date = 2500 /\ r.notes = {"Easy"}
             /\ r \in workouts
        /\ exercises # {} /\ sets # {}

GetCurrentUserOver(p) ==
    /\ Len(log[p]) >= 2 /\ log[p][2] = "getCurrentUser"
    /\ pc[p] \notin {"getCurrentUser", "insertUser"}

\* C21: every call of getCurrentUser that is over has returned the user row
\* whose email is 'user@example.com', found or created, and any two calls,
\* one after the other or at the same time, have returned the same user id.
C21_GetCurrentUserReturnsTestUser ==
    /\ \A p \in Procs :
          GetCurrentUserOver(p) =>
             /\ user[p] # {}
             /\ \A u \in user[p] : u.email = TEMP_USER_EMAIL /\ u \in users
    /\ \A p, q \in Procs : \A u \in user[p], v \in user[q] : u.id = v.id

\* The workout rows a step adds.
Inserted == {w \in workouts' : \A old \in workouts : old.id # w.id}

\* C22: a createWorkoutAction inserts at most once and is not retried: a step
\* adds a workout row only as the createWorkout statement of one invocation,
\* adds exactly that one row, and takes the invocation past the statement for
\* good; an invocation that ends in an error has inserted nothing; and two
\* invocations with the same input that both succeed have made two rows with
\* different ids, both in the table.
C22_CreateInsertsOnceNoRetry ==
    [][/\ Cardinality(Inserted) <= 1
       /\ \A w \in Inserted :
             \E p \in Procs :
                /\ op[p].kind = "createWorkoutAction"
                /\ pc[p] = "createWorkout" /\ pc'[p] = "revalidatePath"
                /\ res'[p] = Returned({w}) /\ op'[p].workoutId = w.id
       /\ \A p \in Procs :
             (op[p].kind = "createWorkoutAction" /\ pc[p] \in {"revalidatePath", "done"})
             => pc'[p] \in {"revalidatePath", "done"}
       /\ \A p \in Procs :
             (op'[p].kind = "createWorkoutAction" /\ res'[p].status = "threw")
             => /\ op'[p].workoutId = 0
                /\ \A w \in Inserted : res'[p] = res[p]
       /\ \A p, q \in Procs :
             (/\ p # q
              /\ op'[p].kind = "createWorkoutAction" /\ op'[q].kind = op'[p].kind
              /\ op'[p].input = op'[q].input
              /\ pc'[p] = "done" /\ pc'[q] = "done"
              /\ res'[p].status = "returned" /\ res'[q].status = "returned")
             => \E a \in res'[p].rows, b \in res'[q].rows :
                   /\ a.id # b.id
                   /\ a \in workouts' /\ b \in workouts'
      ]_vars

\* Two createWorkoutAction calls with the same input have both succeeded and
\* their two rows are in the table, while the table had one row before.
C22_Witness ==
    \E p, q \in Procs :
        /\ p # q /\ op[p].input = op[q].input
        /\ op[p].kind = "createWorkoutAction" /\ op[q].kind = "createWorkoutAction"
        /\ pc[p] = "done" /\ pc[q] = "done"
        /\ \E a \in res[p].rows, b \in res[q].rows :
              /\ a.id # b.id /\ {a, b} \subseteq workouts
              /\ a.name = b.name /\ a.date = b.date
        /\ Cardinality(workouts) = 3

\* The createWorkoutAction that the form of p awaits has resolved.
ActionResolved(p) ==
    /\ op[p].kind = "createWorkoutAction" /\ pc[p] = "done"
    /\ res[p].status = "returned" /\ res[p].rows # {}

\* C23, as stated: the new-workout form navigates to /dashboard only once
\* its createWorkoutAction has resolved successfully, and never when the
\* action has failed.
C23_NavigatesOnlyAfterSuccess ==
    [][\A p \in Procs :
          form'[p].pushed # form[p].pushed => ActionResolved(p)]_vars

\* C23, amended: handleSubmit calls router.push("/dashboard") only once its
\* createWorkoutAction has resolved successfully; when the action has failed
\* it logs the error and pushes nothing; a step of the server action pushes
\* nothing; and every other navigation is a click on Cancel, which pushes
\* "/dashboard" whatever the state of the action.
C23_SubmitNavigatesOnlyAfterSuccess ==
    [][\A p \in Procs :
          /\ form'[p].pushed # form[p].pushed
             => /\ form'[p].pushed = Append(form[p].pushed, "/dashboard")
                /\ pc' = pc /\ res' = res /\ tables' = tables
                /\ \/ form'[p].isLoading = form[p].isLoading
                   \/ ActionResolved(p)
          /\ (form[p].isLoading /\ ~form'[p].isLoading)
             => /\ pc[p] = "done"
                /\ IF res[p].status = "returned"
                   THEN ActionResolved(p) /\ form'[p].pushed # form[p].pushed
                   ELSE /\ form'[p].pushed = form[p].pushed
                        /\ res[p].error \in form'[p].logged
      ]_vars

\* One form has navigated after its action resolved; the other, whose action
\* was rejected, has logged the error and has not navigated.
C23_Witness ==
    \E p, q \in Procs :
        /\ ActionResolved(p) /\ ~form[p].isLoading
        /\ form[p].submitted # {} /\ form[p].pushed = <<"/dashboard">>
        /\ form[q].submitted # {} /\ ~form[q].isLoading
        /\ res[q].status = "threw" /\ form[q].logged = {res[q].error}
        /\ form[q].pushed = <<>>

\* C24: the edit-workout page renders the form only with the workout that
\* has the requested id and belongs to the current user, as the table holds
\* it when the page fetches it; when there is no such workout (no workout of
\* that id, a workout of another user, a parameter that is no uuid) the page
\* ends with the not-found result and no form.
C24_EditPageOwnWorkoutOrNotFound ==
    [][\A p \in Procs :
          (op[p].kind = "EditWorkoutPage" /\ pc[p] = "getWorkoutById"
           /\ pc'[p] = "done")
          => LET own == {w \in workouts :
                            /\ \E x \in op[p].input.workoutId : x.uuid /\ x.id = w.id
                            /\ \E u \in user[p] : u.id = w.userId}
             IN  IF own = {}
                 THEN res'[p].status = "notFound" /\ res'[p].rows = {}
                 ELSE /\ res'[p].status = "returned" /\ res'[p].rows # {}
                      /\ \A r \in res'[p].rows :
                            \E w \in own :
                               /\ r.id = w.id /\ r.userId = w.userId
                               /\ r.name = w.name /\ r.date = w.date
                               /\ r.notes = w.notes
                               /\ r.durationMinutes = w.durationMinutes
      ]_vars

\* One page has rendered the form with a workout of the current user, and
\* another page, asked for the workout of another user that is still in the
\* table, has ended with the not-found result.
C24_Witness ==
    \E p, q \in Procs :
        /\ op[p].kind = "EditWorkoutPage" /\ pc[p] = "done"
        /\ res[p].status = "returned"
        /\ \E r \in res[p].rows, u \in user[p] :
              r.userId = u.id /\ r.id = op[p].workoutId
        /\ op[q].kind = "EditWorkoutPage" /\ pc[q] = "done"
        /\ res[q] = NotFound
        /\ \E w \in workouts, u \in user[q] :
              w.id = op[q].workoutId /\ w.userId # u.id

\* C25: the userId of a workout never changes after the row is created: no
\* step of createWorkoutAction, updateWorkoutAction, updateWorkout or
\* deleteWorkout, whatever userId the payload names, leaves a workout row
\* with the id it had and another owner.
C25_OwnerNeverChanges ==
    [][\A old \in workouts, new \in workouts' :
          new.id = old.id => new.userId = old.userId]_vars

\* An updateWorkoutAction whose payload names another user as userId has
\* updated a workout of the current user, which is still that user's.
C25_Witness ==
    \E p \in Procs :
        /\ op[p].kind = "updateWorkoutAction" /\ pc[p] = "done"
        /\ \E x \in op[p].input.userId, r \in res[p].rows, u \in user[p] :
              /\ x # u.id /\ r.userId = u.id /\ r.name = "Pull Day"
              /\ r \in workouts

\* The ids of the workouts in the table.
WorkoutIds == {w.id : w \in workouts}

\* C26: a workout that has been deleted stays deleted: an id that has been
\* handed out and is not in workouts is not in workouts after any step; the
\* write of an updateWorkout whose target is gone (deleted after the
\* ownership check passed, or before the call) changes no row of any table;
\* and a getWorkoutById on such an id fails with the not-found error.
C26_DeletedStaysDeleted ==
    [][/\ \A i \in 1 .. MaxIds :
             (i < nextId /\ i \notin WorkoutIds) => i \notin WorkoutIds'
       /\ \A p \in Procs, t \in Clock :
             (UpdateWorkoutWrite(p, t) /\ op[p].workoutId \notin WorkoutIds)
             => tables' = tables
       /\ \A p \in Procs, w \in WorkoutIdArgs, u \in UserIdArgs :
             (CallGetWorkoutById(p, w, u) /\ w \notin WorkoutIds)
             => res'[p] = Threw(NotFoundError)
      ]_vars

\* A deleteWorkout has returned the row of W, and an updateWorkout on W whose
\* ownership check had passed has run its write since: W is not in the table.
C26_Witness ==
    \E p, q \in Procs :
        /\ op[p].kind = "deleteWorkout" /\ res[p].status = "returned"
        /\ \E r \in res[p].rows : r.id = op[q].workoutId
        /\ op[q].kind \in {"updateWorkout", "updateWorkoutAction"}
        /\ pc[q] = "done" /\ res[q] = Returned({})
        /\ op[q].workoutId \notin WorkoutIds

\* Both requests are deleteWorkout calls, for the same workout and user, and
\* both are over.
SameDeleteTwice(p, q) ==
    /\ p # q
    /\ op[p].kind = "deleteWorkout" /\ op[q].kind = "deleteWorkout"
    /\ op[p].workoutId = op[q].workoutId /\ op[p].userId = op[q].userId
    /\ pc[p] = "done" /\ pc[q] = "done"

\* C27: a deleteWorkout that finds the workout under the given owner returns
\* its row and removes it with its exercises and their sets, and nothing
\* else; one that does not find it fails with 'Workout not found or
\* unauthorized' and removes nothing.  So of two deleteWorkout calls for the
\* same workout and owner at most one returns the row, and when one does the
\* other fails with that error.
C27_ConcurrentDeletesOnce ==
    [][/\ \A p \in Procs, w \in WorkoutIdArgs, u \in UserIdArgs :
             CallDeleteWorkout(p, w, u)
             => LET target == {x \in workouts : x.id = w /\ x.userId = u}
                    gone == {e \in exercises : e.workoutId = w}
                IN  IF target = {}
                    THEN res'[p] = Threw(NotFoundError) /\ tables' = tables
                    ELSE /\ res'[p] = Returned(target)
                         /\ workouts' = workouts \ target
                         /\ exercises' = exercises \ gone
                         /\ sets' = {s \in sets : \A e \in gone : s.exerciseId # e.id}
                         /\ users' = users
       /\ \A p, q \in Procs :
             (SameDeleteTwice(p, q)' /\ res'[p].status = "returned")
             => res'[q] = Threw(NotFoundError)
      ]_vars

\* Two deleteWorkout calls for the seeded workout by its owner are over: one
\* has returned the row, the other has failed, and the workout, its exercise
\* and its set are gone.
C27_Witness ==
    \E p, q \in Procs :
        /\ SameDeleteTwice(p, q)
        /\ \E r \in res[p].rows : r.id = op[p].workoutId /\ r.userId = op[p].userId
        /\ res[q] = Threw(NotFoundError)
        /\ op[p].workoutId \notin WorkoutIds
        /\ \A e \in exercises : e.workoutId # op[p].workoutId
        /\ sets = {}

LoginOver(p) == op[p].kind = "POST /api/auth/login" /\ pc[p] = "done"

\* The username of the login request p names no user.
UnknownUsername(p) ==
    /\ Truthy(op[p].input.username) /\ Truthy(op[p].input.password)
    /\ \A u \in users : \A x \in op[p].input.username : u.username # x.s

\* The username of the login request p names a user, and its password is
\* not that user's.
WrongPassword(p) ==
    /\ Truthy(op[p].input.username) /\ Truthy(op[p].input.password)
    /\ \E u \in users :
          /\ \E x \in op[p].input.username : u.username = x.s
          /\ \A x \in op[p].input.password :
                x.type # "string" \/ u.passwordHash # BcryptHash(x.s)

\* C30: the login endpoint answers an unknown username and a known username
\* with a wrong password with the same response, status 401; a missing
\* username or password with status 400, before any query; a 200 response
\* carries the id, username and email of the user and no password hash; and
\* no step of a login changes a table.
C30_LoginResponses ==
    [][/\ tables' = tables
       /\ \A p \in Procs :
             LoginOver(p)'
             => /\ (~Truthy(op'[p].input.username) \/ ~Truthy(op'[p].input.password))
                   => res'[p].code = 400 /\ log'[p] = <<"request.json">>
                /\ res'[p].code = 200
                   => \E u \in users :
                         res'[p].body.user = {[id |-> u.id, username |-> u.username,
                                               email |-> u.email]}
       /\ \A p, q \in Procs :
             (LoginOver(p)' /\ LoginOver(q)' /\ UnknownUsername(p)' /\ WrongPassword(q)')
             => res'[p] = res'[q] /\ res'[p].code = 401
      ]_vars

====
